---- MODULE Spec2Model ----
(***************************************************************************)
(* Model of the IMAP connection layer of melib                             *)
(* (melib/src/backends/imap/connection.rs): ImapStream, ImapConnection and *)
(* the part of the shared UIDStore they write.                             *)
(*                                                                         *)
(* Every public method of ImapConnection is one action.  A method runs to  *)
(* completion inside its action; the outcome of each network step it       *)
(* performs (a write, a read of a response) is chosen by the environment.  *)
(* The semantic operators therefore return the SET of results a call can   *)
(* produce; at most MaxFaults steps of one call deviate from the healthy   *)
(* outcome.                                                                *)
(***************************************************************************)
EXTENDS Integers, Sequences, FiniteSets, TLC

(***************************************************************************)
(* Bounds of the model.                                                    *)
(***************************************************************************)
MaxFaults == 2
MaxCmd == 5
MaxExists == 1
MaxTime == 28
NumMailboxes == 1
MaxValidity == 2
MaxWatchCmd == 5
MaxLines == 2
MaxPs == 1
MaxScript == 2
MaxItems == 2
MaxDrops == 1
MaxArrivals == 2
MaxChunks == 2
MaxRest == 2

(***************************************************************************)
(* Program constants.  Time is counted in minutes.                         *)
(***************************************************************************)
IMAP_PROTOCOL_TIMEOUT == 28

(***************************************************************************)
(* Mailboxes of the account (uid_store.mailboxes).  Mailbox 0 carries the  *)
(* \NoSelect flag, the others can be selected.                             *)
(***************************************************************************)
NoSelectMailbox == 0
MailboxHashes == 0..NumMailboxes
no_select(h) == h = NoSelectMailbox

(***************************************************************************)
(* MailboxSelection                                                        *)
(***************************************************************************)
SelNone == <<"None", 0>>
Select(h) == <<"Select", h>>
Examine(h) == <<"Examine", h>>

(***************************************************************************)
(* Errors: the kind (ErrorKind) and the message that identifies them.      *)
(***************************************************************************)
Err(kind, msg) == [kind |-> kind, msg |-> msg]
NoErr == Err("", "")
OfflineErr == Err("None", "Offline")
TimedOutErr == Err("Timeout", "Timed out.")
StaleErr == Err("Timeout", "Connection timed out after 1680 seconds")
IoErr(site) == Err("Network", site)

is_network(kind) == kind = "Network"

(***************************************************************************)
(* Server configurations (ImapServerConf and the cache switch of the       *)
(* UIDStore) the model is run with.                                        *)
(***************************************************************************)
Confs ==
  { [use_starttls |-> FALSE, oauth2 |-> FALSE, condstore |-> FALSE,
     deflate |-> FALSE, keep_offline_cache |-> FALSE],
    [use_starttls |-> TRUE, oauth2 |-> FALSE, condstore |-> TRUE,
     deflate |-> TRUE, keep_offline_cache |-> TRUE],
    [use_starttls |-> FALSE, oauth2 |-> TRUE, condstore |-> TRUE,
     deflate |-> FALSE, keep_offline_cache |-> FALSE] }

(***************************************************************************)
(* What a server may advertise: the capability line of the                 *)
(* pre-authentication CAPABILITY response (capline = FALSE: the response   *)
(* has no such line), how the server volunteers its capabilities with the  *)
(* completion of the authentication (vol: in an untagged "* CAPABILITY"    *)
(* line, in the response code of the tagged OK, or not at all), and the    *)
(* capabilities of the authenticated state.                                *)
(***************************************************************************)
ServerProfiles ==
  { [capline |-> TRUE, pre |-> {"IMAP4rev1", "AUTH=XOAUTH2"}, vol |-> "untagged",
     post |-> {"IMAP4rev1", "CONDSTORE", "ENABLE", "COMPRESS=DEFLATE", "UNSELECT",
               "LIST-STATUS"}],
    [capline |-> TRUE, pre |-> {"IMAP4rev1"}, vol |-> "none",
     post |-> {"IMAP4rev1", "CONDSTORE"}],
    [capline |-> TRUE, pre |-> {"IMAP4rev1", "IDLE"}, vol |-> "tagged",
     post |-> {"IMAP4rev1", "IDLE"}],
    [capline |-> TRUE, pre |-> {"IMAP4rev1", "LOGINDISABLED"}, vol |-> "none",
     post |-> {"IMAP4rev1"}],
    [capline |-> TRUE, pre |-> {"IMAP4"}, vol |-> "none", post |-> {"IMAP4"}],
    [capline |-> TRUE, pre |-> {"IMAP4", "LOGINDISABLED"}, vol |-> "none",
     post |-> {"IMAP4"}] }

VARIABLES
  conf,          \* server_conf of the connection
  now,           \* the wall clock, in minutes
  stream,        \* ImapConnection.stream : Result<ImapStream>
  sync_policy,   \* ImapConnection.sync_policy
  is_online,     \* uid_store.is_online
  capabilities,  \* uid_store.capabilities
  msn_index,     \* uid_store.msn_index
  server,        \* the server: what it advertises (one of ServerProfiles)
  srv_exists,    \* the server: number of messages of every mailbox
  last,          \* the last call on the connection and what it did
  uid_index,     \* uid_store.uid_index : (mailbox_hash, uid) -> env_hash
  hash_index,    \* uid_store.hash_index : env_hash -> (uid, mailbox_hash)
  uidvalidity,   \* uid_store.uidvalidity (0: no entry)
  mailboxes,     \* uid_store.mailboxes: exists (LazyCountSet) and warm
  create_count,  \* the event consumer: Create events received per env_hash
  srv_uidvalidity, \* the server: UIDVALIDITY of every mailbox
  poll,          \* poll_with_examine: running? and the mailboxes left in this round
  idle,          \* idle(): running? and its clocks
  main_conn,     \* the kit's main_conn: the connection shared with the backend
  wire,          \* the server: lines sent to the idling connection and not read yet
  blockn,        \* idle(): the ImapBlockingConnection around the watcher's connection
  processed,     \* the lines given to process_untagged, in the order of the calls
  tls,           \* new_connection: the STARTTLS exchange on a new socket
  folder_watch,  \* ImapType::watch: the thread that watches one folder
  rl,            \* ImapStream::read_lines: one call, read by read
  get            \* ImapType::get (imap.rs): the closure that fetches one folder

idleVars == <<idle, main_conn, wire, blockn, processed>>

stepVars == <<tls, folder_watch, rl, get>>

watchVars == <<uid_index, hash_index, uidvalidity, mailboxes, create_count, poll>>

vars == <<conf, now, stream, sync_policy, is_online, capabilities, msn_index,
          server, srv_exists, last, uid_index, hash_index, uidvalidity,
          mailboxes, create_count, srv_uidvalidity, poll, idle, main_conn, wire,
          blockn, processed, tls, folder_watch, rl, get>>

(***************************************************************************)
(* ImapStream values.  tags is the history of the tags written to the      *)
(* socket of this stream, idx identifies the stream within the current     *)
(* call: 0 is the stream the connection had when the call began, k the     *)
(* k-th stream opened by the call.  broken: a write to the socket has      *)
(* failed; nothing is written to or received from it any more.  eof: the   *)
(* server has closed its side; every read returns 0 bytes at once.         *)
(* selected: what the server has selected in the session of this socket.   *)
(***************************************************************************)
ErrStream(e) ==
  [ok |-> FALSE, err |-> e, cmd_id |-> 0, current_mailbox |-> SelNone,
   deflate |-> FALSE, broken |-> FALSE, eof |-> FALSE, tags |-> <<>>, idx |-> 0,
   selected |-> SelNone]

OkStream(cmd_id, tags, idx) ==
  [ok |-> TRUE, err |-> NoErr, cmd_id |-> cmd_id, current_mailbox |-> SelNone,
   deflate |-> FALSE, broken |-> FALSE, eof |-> FALSE, tags |-> tags, idx |-> idx,
   selected |-> SelNone]

(***************************************************************************)
(* The world a call runs in: the connection, the UIDStore fields and the   *)
(* record of the call.                                                     *)
(***************************************************************************)
World(op, h, force, required) ==
  [stream |-> [stream EXCEPT !.idx = 0],
   sync_policy |-> sync_policy,
   is_online |-> is_online,
   capabilities |-> capabilities,
   msn_index |-> msn_index,
   op |-> op, h |-> h, force |-> force, required |-> required,
   preOk |-> stream.ok,
   preErr |-> stream.err,
   preBroken |-> stream.broken \/ stream.eof,
   preSel |-> stream.current_mailbox,
   sent |-> <<>>,
   calls |-> <<>>,
   faults |-> <<>>,
   opens |-> <<>>,
   notices |-> 0,
   events |-> <<>>]

Ev(e, err) == [e |-> e, err |-> err]
Call(w, e, err) == [w EXCEPT !.calls = Append(@, Ev(e, err))]

(***************************************************************************)
(* One network step at `site': the healthy outcome dflt, or one of the     *)
(* outcomes alts while the call has faults left.                           *)
(***************************************************************************)
IO(w, site, dflt, alts) ==
  {[w |-> w, o |-> dflt]} \cup
  (IF Len(w.faults) < MaxFaults
     THEN {[w |-> [w EXCEPT !.faults = Append(@, <<site, a>>)], o |-> a] : a \in alts}
     ELSE {})

(***************************************************************************)
(* ImapStream                                                              *)
(***************************************************************************)
SRes(w, s, ok, err, resp) == [w |-> w, s |-> s, ok |-> ok, err |-> err, resp |-> resp]

\* the tag and the command have reached the socket; cmd_id += 1
Wrote(w, s, cmd) ==
  [w |-> [w EXCEPT !.sent = Append(@, [idx |-> s.idx, tag |-> s.cmd_id, cmd |-> cmd])],
   s |-> [s EXCEPT !.tags = Append(@, s.cmd_id), !.cmd_id = @ + 1]]

\* ImapStream::send_command.  The future that writes is run under
\* timeout(); only the error of timeout() itself is propagated, the
\* Result of the writes is assigned to `_'.  A failing write fails at its
\* first write_all, before cmd_id is incremented.
StreamSendCommandMutPropagates(w, s, cmd, site) ==
  IF s.broken THEN {SRes(w, s, FALSE, IoErr(site), "")}
  ELSE { CASE x.o = "ok" -> LET y == Wrote(x.w, s, cmd) IN SRes(y.w, y.s, TRUE, NoErr, "")
           [] x.o = "net" -> SRes(x.w, [s EXCEPT !.broken = TRUE], FALSE, IoErr(site), "")
           [] x.o = "timeout" -> SRes(x.w, s, FALSE, TimedOutErr, "")
         : x \in IO(w, site, "ok", {"net", "timeout"}) }

StreamSendCommand(w, s, cmd, site) ==
  IF s.broken THEN {SRes(w, s, TRUE, NoErr, "")}
  ELSE { CASE x.o = "ok" -> LET y == Wrote(x.w, s, cmd) IN SRes(y.w, y.s, TRUE, NoErr, "")
           [] x.o = "net" -> SRes(x.w, [s EXCEPT !.broken = TRUE], TRUE, NoErr, "")
           [] x.o = "timeout" -> SRes(x.w, s, FALSE, TimedOutErr, "")
         : x \in IO(w, site, "ok", {"net", "timeout"}) }

\* ImapStream::send_literal and ImapStream::send_raw: no deadline, the
\* error of a write is propagated.

StreamSendData(w, s, site) ==
  IF s.broken THEN {SRes(w, s, FALSE, IoErr(site), "")}
  ELSE { CASE x.o = "ok" ->
                SRes(IF site \in {"login_literal_w", "literal_w"} THEN Call(x.w, "literal", NoErr) ELSE x.w,
                     s, TRUE, NoErr, "")
           [] x.o = "net" -> SRes(x.w, s, FALSE, IoErr(site), "")
         : x \in IO(w, site, "ok", {"net"}) }

\* ImapStream::read_lines as called by ImapStream::read_response: reads
\* until the line of the awaited tag.  resp is the status of that line.
\* UBYE: a line "* BYE" at the start of the unread part; TIMEOUT: the
\* deadline of a read passes.  alts: the deviating outcomes considered
\* at this place.
StreamReadResponse(w, s, site, alts) ==
  IF s.broken THEN {SRes(w, s, FALSE, TimedOutErr, "")}
  ELSE IF s.eof THEN {SRes(w, s, TRUE, NoErr, "EOF")}
  ELSE { CASE x.o \in {"OK", "NO", "BAD", "BYE"} -> SRes(x.w, s, TRUE, NoErr, x.o)
           [] x.o = "UBYE" -> SRes(x.w, s, FALSE, Err("None", "Disconnected"), "")
           [] x.o = "TIMEOUT" -> SRes(x.w, s, FALSE, TimedOutErr, "")
         : x \in IO(w, site, "OK", alts) }

\* The deviating replies considered: to a response read by the caller
\* (site "resp") every one; to the commands the connection issues itself one
\* of each class (BAD is handled as NO is, "* BYE" as a passed deadline);
\* while a stream is opened a refusal and a passed deadline.
OpenReplies == {"NO", "TIMEOUT"}
RepliesAt(site) ==
  IF site = "resp" THEN {"NO", "BAD", "BYE", "UBYE", "TIMEOUT"} ELSE {"NO", "BYE", "TIMEOUT"}

\* ImapStream::wait_for_continuation_request: read_lines until "+ ".  A
\* server that answers with a tagged line instead never sends the awaited
\* line, and the deadline passes.  EOF: the read returns Ok(0), the loop of
\* read_lines breaks and Ok(()) is returned although no "+ " line was read.
StreamWaitForContinuation(w, s, site) ==
  IF s.broken THEN {SRes(w, s, FALSE, TimedOutErr, "")}
  ELSE IF s.eof THEN {SRes(w, s, TRUE, NoErr, "")}
  ELSE { CASE x.o = "OK" -> SRes(Call(x.w, "continuation", NoErr), s, TRUE, NoErr, "+")
           [] x.o = "NO" -> SRes(x.w, s, FALSE, TimedOutErr, "")
           [] x.o = "EOF" -> SRes(x.w, [s EXCEPT !.eof = TRUE], TRUE, NoErr, "")
         : x \in IO(w, site, "OK", {"NO", "EOF"}) }

(***************************************************************************)
(* ImapStream::new_connection, IMAP protocol.  p is the server that the    *)
(* new socket reaches.  The steps are defined last to first.               *)
(***************************************************************************)
NRes(w, ok, err, caps, s) == [w |-> w, ok |-> ok, err |-> err, caps |-> caps, s |-> s]

OpenFailed(w, s, err) ==
  NRes([w EXCEPT !.opens[s.idx].err = err], FALSE, err, {}, ErrStream(err))

OpenDone(w, s, caps) ==
  NRes([w EXCEPT !.opens[s.idx].ok = TRUE], TRUE, NoErr, caps, s)

\* the server did not volunteer its capabilities: ask for them
NewConnExplicitCapability(w, s, p) ==
  UNION { IF ~c.ok THEN {OpenFailed(c.w, c.s, c.err)}
          ELSE { IF ~r.ok THEN OpenFailed(r.w, r.s, Err("Panic", "unwrap"))
                 ELSE IF r.resp # "OK" THEN OpenFailed(r.w, r.s, Err("None", "parse"))
                 ELSE OpenDone(r.w, r.s, p.post)
                 : r \in StreamReadResponse(c.w, c.s, "cap2_r", OpenReplies) }
          : c \in StreamSendCommand(w, s, "CAPABILITY", "cap2_w") }

\* the loop that reads the completion of LOGIN / AUTHENTICATE.  At the end
\* of the stream read_lines returns Ok with nothing read, no tagged line is
\* ever seen and the loop does not end: the call has no result.
NewConnAuthCompletion(w, s, p) ==
  IF s.eof THEN {}
  ELSE
  UNION { IF ~r.ok THEN {OpenFailed(r.w, r.s, r.err)}
          ELSE IF r.resp # "OK"
            THEN {OpenFailed(r.w, r.s, Err("Authentication", "Could not connect. Server replied"))}
          ELSE IF p.vol = "untagged" THEN {OpenDone(r.w, r.s, p.post)}
          ELSE NewConnExplicitCapability(r.w, r.s, p)
          : r \in StreamReadResponse(w, s, "auth_r", OpenReplies) }

NewConnLogin(w, s, p) ==
  UNION { IF ~c.ok THEN {OpenFailed(c.w, c.s, c.err)}
          ELSE UNION { IF ~k.ok THEN {OpenFailed(k.w, k.s, k.err)}
                       ELSE UNION { IF ~l.ok THEN {OpenFailed(l.w, l.s, l.err)}
                                    ELSE NewConnAuthCompletion(l.w, l.s, p)
                                    : l \in StreamSendData(k.w, k.s, "login_literal_w") }
                       : k \in StreamWaitForContinuation(c.w, c.s, "login_cont_r") }
          : c \in StreamSendCommand(w, s, "LOGIN", "login_w") }

NewConnOauth2(w, s, p) ==
  IF "AUTH=XOAUTH2" \notin p.pre
    THEN {OpenFailed(w, s, Err("None", "OAUTH2 is enabled but server did not return AUTH=XOAUTH2"))}
    ELSE UNION { IF ~c.ok THEN {OpenFailed(c.w, c.s, c.err)}
                 ELSE NewConnAuthCompletion(c.w, c.s, p)
                 : c \in StreamSendCommand(w, s, "AUTHENTICATE", "login_w") }

NewConnAuthenticate(w, s, p) ==
  IF conf.oauth2 THEN NewConnOauth2(w, s, p) ELSE NewConnLogin(w, s, p)

\* the checks of the pre-authentication capabilities
NewConnCheckCapabilitiesMutNoChecks(w, s, p) == NewConnAuthenticate(w, s, p)

NewConnCheckCapabilities(w, s, p) ==
  IF "IMAP4rev1" \notin p.pre
    THEN {OpenFailed(w, s, Err("None", "server is not IMAP4rev1 compliant"))}
  ELSE IF "LOGINDISABLED" \in p.pre
    THEN {OpenFailed(w, s, Err("Authentication", "server does not accept logins [LOGINDISABLED]"))}
  ELSE NewConnAuthenticate(w, s, p)

NewConnCapability(w, s, p) ==
  UNION { IF ~c.ok THEN {OpenFailed(c.w, c.s, c.err)}
          ELSE UNION { IF ~r.ok THEN {OpenFailed(r.w, r.s, r.err)}
                       ELSE IF ~(p.capline /\ r.resp = "OK")
                         THEN {OpenFailed(r.w, r.s, Err("Bug", "expected CAPABILITY response"))}
                       ELSE NewConnCheckCapabilities(
                              [r.w EXCEPT !.opens[s.idx].gotcaps = TRUE], r.s, p)
                       : r \in StreamReadResponse(c.w, c.s, "cap_r", OpenReplies) }
          : c \in StreamSendCommand(w, s, "CAPABILITY", "cap_w") }

\* "M1 STARTTLS" is written to the socket with the local cmd_id = 1, which
\* is not incremented: the ImapStream is then built with cmd_id = 1.
NewConnStartTls(w, idx, p) ==
  LET s0 == OkStream(1, <<>>, idx)
      s1 == OkStream(1, <<1>>, idx)
      w1 == [w EXCEPT !.sent = Append(@, [idx |-> idx, tag |-> 1, cmd |-> "STARTTLS"])]
  IN IF ~conf.use_starttls THEN NewConnCapability(w, s0, p)
     ELSE UNION { IF x.o = "net" THEN {OpenFailed(x.w, s0, IoErr("starttls_w"))}
                  ELSE UNION { IF y.o = "OK" THEN NewConnCapability(y.w, s1, p)
                               ELSE {OpenFailed(y.w, s1,
                                        Err("None", "Could not initiate STARTTLS negotiation"))}
                               : y \in IO(w1, "starttls_r", "OK", {"NO"}) }
                  : x \in IO(w, "starttls_w", "ok", {"net"}) }

NewConnection(w) ==
  LET idx == Len(w.opens) + 1
      p == server
      w1 == [Call(w, "open", NoErr) EXCEPT
               !.opens = Append(@, [pre |-> p.pre, gotcaps |-> FALSE,
                                    ok |-> FALSE, err |-> NoErr])]
  IN UNION { IF x.o = "net" THEN {OpenFailed(x.w, OkStream(1, <<>>, idx), IoErr("tcp"))}
             ELSE NewConnStartTls(x.w, idx, p)
             : x \in IO(w1, "tcp", "ok", {"net"}) }

(***************************************************************************)
(* ImapConnection                                                          *)
(***************************************************************************)
CRes(w, ok, err, resp) == [w |-> w, ok |-> ok, err |-> err, resp |-> resp]

SetOnline(w) == [w EXCEPT !.is_online = [time |-> now, ok |-> TRUE]]

\* self.stream = Err(err)
MarkErr(w, err) == [Call(w, "stream_err", err) EXCEPT !.stream = ErrStream(err)]

\* Result<()>::from(ImapResponse): Ok for OK, Err for NO and BAD.  For BYE
\* either result is allowed.
ResponseInto(w, resp) ==
  CASE resp = "OK" -> {CRes(w, TRUE, NoErr, resp)}
    [] resp \in {"NO", "BAD"} -> {CRes(w, FALSE, Err("None", resp), resp)}
    [] resp = "BYE" -> {CRes(w, TRUE, NoErr, resp), CRes(w, FALSE, Err("None", resp), resp)}

Notice(w) == [w EXCEPT !.notices = @ + 1]

\* ImapConnection::read_response, on the status resp of the tagged line
ReadResponseDispatchMutNoFatal(w, required, resp) ==
  CASE resp = "BYE" ->
         ResponseInto(MarkErr(w, Err("None", "Offline: received BYE")), resp)
    [] resp = "NO" ->
         ResponseInto(Notice(MarkErr(w, Err("None", "NO"))), resp)
    [] resp = "BAD" -> ResponseInto(Notice(w), resp)
    [] OTHER -> {CRes(w, TRUE, NoErr, resp)}

ReadResponseDispatch(w, required, resp) ==
  CASE resp = "BYE" ->
         ResponseInto(MarkErr(w, Err("None", "Offline: received BYE")), resp)
    [] resp = "NO" /\ required = "NO_REQUIRED" -> {CRes(w, TRUE, NoErr, resp)}
    [] resp \in {"NO", "BAD"} -> ResponseInto(Notice(w), resp)
    [] OTHER -> {CRes(w, TRUE, NoErr, resp)}

ConnReadResponse(w, required, site) ==
  IF ~w.stream.ok THEN {CRes(w, FALSE, w.stream.err, "")}
  ELSE UNION { IF ~r.ok THEN {CRes(r.w, FALSE, r.err, "")}
               ELSE IF r.resp = "EOF"
                 THEN {CRes(SetOnline(r.w), FALSE, Err("None", "parse"), "")}
               ELSE ReadResponseDispatch(SetOnline(r.w), required, r.resp)
               : r \in StreamReadResponse(w, w.stream, site, RepliesAt(site)) }

RECURSIVE ConnConnect(_)

\* the error branch shared by send_command, send_literal and send_raw
SendFailedMutReturnsConnect(w, err) ==
  LET w1 == MarkErr(Call(w, "send_failed", err), err)
  IN IF is_network(err.kind)
       THEN { CRes(c.w, c.ok, c.err, "") : c \in ConnConnect(w1) }
       ELSE {CRes(w1, FALSE, err, "")}

SendFailed(w, err) ==
  LET w1 == MarkErr(Call(w, "send_failed", err), err)
  IN IF is_network(err.kind)
       THEN { IF c.ok THEN CRes(c.w, FALSE, err, "") ELSE CRes(c.w, FALSE, c.err, "")
              : c \in ConnConnect(w1) }
       ELSE {CRes(w1, FALSE, err, "")}

ConnSendCommand(w, cmd, site) ==
  IF ~w.stream.ok THEN SendFailed(w, w.stream.err)
  ELSE UNION { IF c.ok THEN {CRes(SetOnline([c.w EXCEPT !.stream = c.s]), TRUE, NoErr, "")}
               ELSE SendFailed(c.w, c.err)
               : c \in StreamSendCommand(w, w.stream, cmd, site) }

ConnSendData(w, site) ==
  IF ~w.stream.ok THEN SendFailed(w, w.stream.err)
  ELSE UNION { IF c.ok THEN {CRes(c.w, TRUE, NoErr, "")}
               ELSE SendFailed(c.w, c.err)
               : c \in StreamSendData(w, w.stream, site) }

ConnSendLiteral(w) == ConnSendData(w, "literal_w")
ConnSendRaw(w) == ConnSendData(w, "raw_w")

\* ImapConnection::wait_for_continuation_request
ConnWaitForContinuation(w, site) ==
  IF ~w.stream.ok THEN {CRes(w, FALSE, w.stream.err, "")}
  ELSE { CRes([c.w EXCEPT !.stream = c.s], c.ok, c.err, "")
         : c \in StreamWaitForContinuation(w, w.stream, site) }

\* save: APPEND announces the literal, the continuation is awaited, the
\* message is written, the completion is read
ConnSave(w) ==
  UNION { IF ~c.ok THEN {c}
          ELSE UNION { IF ~k.ok THEN {k}
                       ELSE UNION { IF ~l.ok THEN {l}
                                    ELSE ConnReadResponse(l.w, "EMPTY", "append")
                                    : l \in ConnSendLiteral(k.w) }
                       : k \in ConnWaitForContinuation(c.w, "cont_r") }
          : c \in ConnSendCommand(w, "APPEND", "append") }

\* send_command followed by read_response, both propagating with `?'
Roundtrip(w, cmd, required, site) ==
  UNION { IF ~c.ok THEN {c} ELSE ConnReadResponse(c.w, required, site)
          : c \in ConnSendCommand(w, cmd, site) }

\* connect(), after the new stream has been stored: the upgrades
ConnectDeflate(w, caps) ==
  IF "COMPRESS=DEFLATE" \in caps /\ conf.deflate
    THEN { IF ~r.ok THEN r
           ELSE IF r.resp = "OK"
             THEN CRes([r.w EXCEPT !.stream.deflate = TRUE, !.capabilities = caps],
                       TRUE, NoErr, "")
           ELSE CRes([r.w EXCEPT !.capabilities = caps], TRUE, NoErr, "")
           : r \in Roundtrip(w, "COMPRESS DEFLATE", "EMPTY", "compress") }
    ELSE {CRes([w EXCEPT !.capabilities = caps], TRUE, NoErr, "")}

ConnectUpgrade(w, caps) ==
  IF "CONDSTORE" \in caps /\ conf.condstore /\ w.sync_policy # "None"
    THEN UNION { IF ~r.ok THEN {r}
                 ELSE ConnectDeflate([r.w EXCEPT !.sync_policy = "Condstore"], caps)
                 : r \in Roundtrip(w, IF "ENABLE" \in caps THEN "ENABLE CONDSTORE" ELSE "STATUS",
                                   "EMPTY", "condstore") }
    ELSE ConnectDeflate(w, caps)

ConnectRebuild(w) ==
  UNION { IF ~n.ok
            THEN {CRes([n.w EXCEPT !.is_online.ok = FALSE],
                       FALSE, n.err, "")}
            ELSE ConnectUpgrade(SetOnline([n.w EXCEPT !.stream = n.s]), n.caps)
          : n \in NewConnection(w) }

ConnectStaleMutNoGrace(w) ==
  IF w.is_online.ok
    THEN [w EXCEPT !.is_online.ok = FALSE,
                   !.stream = ErrStream(StaleErr)]
    ELSE w

ConnectStale(w) ==
  IF w.is_online.ok /\ now - w.is_online.time >= IMAP_PROTOCOL_TIMEOUT
    THEN [w EXCEPT !.is_online.ok = FALSE,
                   !.stream = ErrStream(StaleErr)]
    ELSE w

ConnConnect(w) ==
  LET w1 == ConnectStale(Call(w, "connect", NoErr))
      Done(r) == [r EXCEPT !.w = Call(r.w, IF r.ok THEN "connect_ok" ELSE "connect_err", r.err)]
  IN { Done(r) :
       r \in IF w1.stream.ok
               THEN UNION { IF n.ok THEN {n} ELSE ConnectRebuild(n.w)
                            : n \in Roundtrip(w1, "NOOP", "EMPTY", "noop") }
               ELSE ConnectRebuild(w1) }

URes(w, ok, err, val) == [w |-> w, ok |-> ok, err |-> err, val |-> val]

\* The server's side of SELECT, EXAMINE and UNSELECT (RFC 3501 6.3.1, RFC
\* 3691) for the results R of the round trip: with the tagged OK the
\* session has sel selected; with a NO to SELECT or EXAMINE it has nothing
\* selected; otherwise it is as before.
Served(R, cmd, sel) ==
  { [r EXCEPT !.w.stream.selected = CASE r.resp = "OK" -> sel
                                      [] r.resp = "NO" /\ cmd # "UNSELECT" -> SelNone
                                      [] OTHER -> @]
    : r \in R }

UidsOf(n) == [i \in 1..n |-> i]

\* create_uid_msn_cache(mailbox_hash, low = 1, _)
CreateUidMsnCache(w, h) ==
  { IF ~r.ok THEN URes(r.w, FALSE, r.err, "")
    ELSE IF r.resp # "OK"
      THEN URes([r.w EXCEPT !.msn_index[h] = <<>>], FALSE, Err("None", "parse"), "")
    ELSE URes([r.w EXCEPT !.msn_index[h] = UidsOf(srv_exists[h])], TRUE, NoErr, "")
    : r \in Roundtrip(w, "UID SEARCH", "SEARCH", "search") }

\* select_mailbox
ConnSelectMailboxMutKeepsSelection(w, h, force) ==
  IF ~force /\ ~w.stream.ok THEN {URes(w, FALSE, w.stream.err, "")}
  ELSE IF ~force /\ w.stream.current_mailbox = Select(h) THEN {URes(w, TRUE, NoErr, "None")}
  ELSE IF no_select(h) THEN {URes(w, FALSE, Err("Bug", "NoSelect mailbox"), "")}
  ELSE UNION { IF ~r.ok THEN {URes(r.w, FALSE, r.err, "")}
               ELSE IF r.resp # "OK" THEN {URes(r.w, FALSE, Err("None", "parse"), "")}
               ELSE IF r.w.msn_index[h] = <<>>
                      THEN { IF ~c.ok THEN c ELSE URes(c.w, TRUE, NoErr, "Some")
                             : c \in CreateUidMsnCache(r.w, h) }
                      ELSE {URes(r.w, TRUE, NoErr, "Some")}
               : r \in Served(Roundtrip(w, "SELECT", "SELECT_REQUIRED", "select"),
                                "SELECT", Select(h)) }

ConnSelectMailboxMutAlwaysSelects(w, h, force) ==
  IF ~force /\ ~w.stream.ok THEN {URes(w, FALSE, w.stream.err, "")}
  ELSE IF no_select(h) THEN {URes(w, FALSE, Err("Bug", "NoSelect mailbox"), "")}
  ELSE UNION { IF ~r.ok THEN {URes(r.w, FALSE, r.err, "")}
               ELSE IF r.resp # "OK" THEN {URes(r.w, FALSE, Err("None", "parse"), "")}
               ELSE LET w1 == [r.w EXCEPT !.stream.current_mailbox = Select(h)]
                    IN IF w1.msn_index[h] = <<>>
                         THEN { IF ~c.ok THEN c ELSE URes(c.w, TRUE, NoErr, "Some")
                                : c \in CreateUidMsnCache(w1, h) }
                         ELSE {URes(w1, TRUE, NoErr, "Some")}
               : r \in Served(Roundtrip(w, "SELECT", "SELECT_REQUIRED", "select"),
                                "SELECT", Select(h)) }

ConnSelectMailbox(w, h, force) ==
  IF ~force /\ ~w.stream.ok THEN {URes(w, FALSE, w.stream.err, "")}
  ELSE IF ~force /\ w.stream.current_mailbox = Select(h) THEN {URes(w, TRUE, NoErr, "None")}
  ELSE IF no_select(h) THEN {URes(w, FALSE, Err("Bug", "NoSelect mailbox"), "")}
  ELSE UNION { IF ~r.ok THEN {URes(r.w, FALSE, r.err, "")}
               ELSE IF r.resp # "OK" THEN {URes(r.w, FALSE, Err("None", "parse"), "")}
               ELSE LET w1 == [r.w EXCEPT !.stream.current_mailbox = Select(h)]
                    IN IF w1.msn_index[h] = <<>>
                         THEN { IF ~c.ok THEN c ELSE URes(c.w, TRUE, NoErr, "Some")
                                : c \in CreateUidMsnCache(w1, h) }
                         ELSE {URes(w1, TRUE, NoErr, "Some")}
               : r \in Served(Roundtrip(w, "SELECT", "SELECT_REQUIRED", "select"),
                                "SELECT", Select(h)) }

\* examine_mailbox: the MSN cache is rebuilt when msn_index[h] is NOT empty
ConnExamineMailbox(w, h, force) ==
  IF ~force /\ ~w.stream.ok THEN {URes(w, FALSE, w.stream.err, "")}
  ELSE IF ~force /\ w.stream.current_mailbox = Examine(h) THEN {URes(w, TRUE, NoErr, "None")}
  ELSE IF no_select(h) THEN {URes(w, FALSE, Err("Bug", "NoSelect mailbox"), "")}
  ELSE UNION { IF ~r.ok THEN {URes(r.w, FALSE, r.err, "")}
               ELSE IF r.resp # "OK" THEN {URes(r.w, FALSE, Err("None", "parse"), "")}
               ELSE LET w1 == [r.w EXCEPT !.stream.current_mailbox = Examine(h)]
                    IN IF ~(w1.msn_index[h] = <<>>)
                         THEN { IF ~c.ok THEN c ELSE URes(c.w, TRUE, NoErr, "Some")
                                : c \in CreateUidMsnCache(w1, h) }
                         ELSE {URes(w1, TRUE, NoErr, "Some")}
               : r \in Served(Roundtrip(w, "EXAMINE", "EXAMINE_REQUIRED", "select"),
                                "EXAMINE", Examine(h)) }

\* the names "blurdybloop", "blurdybloopp", ..: a name is the number of 'p'
\* appended.  paths: the imap_path()s of uid_store.mailboxes that are among
\* these names
blurdybloop == 0

nonexistentMutNoLoop(paths) == blurdybloop

\* while mailboxes.values().any(|m| m.imap_path() == nonexistent)
\*   { nonexistent.push('p') }
RECURSIVE PushWhileKnown(_, _)
PushWhileKnown(name, paths) ==
  IF name \in paths THEN PushWhileKnown(name + 1, paths) ELSE name

nonexistent(paths) == PushWhileKnown(blurdybloop, paths)

\* format!("SELECT \"{}\"", nonexistent): recorded as "SELECT nonexistent"
\* when the name is the path of no mailbox, as "SELECT" otherwise
SelectOf(paths) == IF nonexistent(paths) \in paths THEN "SELECT" ELSE "SELECT nonexistent"

\* unselect.  select: the command of the fallback, SelectOf(paths)
ConnUnselect(w, select) ==
  IF ~w.stream.ok THEN {URes(w, FALSE, w.stream.err, "")}
  ELSE LET w1 == [w EXCEPT !.stream.current_mailbox = SelNone]
       IN IF w.stream.current_mailbox = SelNone THEN {URes(w1, TRUE, NoErr, "")}
          ELSE { URes(r.w, r.ok, r.err, "")
                 : r \in IF "UNSELECT" \in w1.capabilities
                           THEN Served(Roundtrip(w1, "UNSELECT", "EMPTY", "unselect"),
                                       "UNSELECT", SelNone)
                           ELSE Served(Roundtrip(w1, select, "NO_REQUIRED", "unselect"),
                                       select, SelNone) }

(***************************************************************************)
(* The watcher (watch.rs).  uid_index and hash_index are maps, kept as     *)
(* sets of <<key, value>> pairs.                                           *)
(***************************************************************************)
SelectableMailboxes == MailboxHashes \ {NoSelectMailbox}

\* the INBOX of the account (parent-less, special usage Inbox): the mailbox
\* idle() watches.  The mailboxes the store keeps state for.
INBOX == NumMailboxes + 1
StoreMailboxes == SelectableMailboxes \cup {INBOX}

\* generate_envelope_hash(imap_path, uid): determined by the mailbox and
\* the uid, different for different pairs
generate_envelope_hash(h, uid) == <<h, uid>>
EnvelopeHashes ==
  {generate_envelope_hash(h, uid) : h \in StoreMailboxes, uid \in 1..(MaxExists + MaxArrivals)}

\* HashMap::contains_key and HashMap::insert
contains_key(map, k) == \E e \in map : e[1] = k
insert(map, k, v) == {e \in map : e[1] # k} \cup {<<k, v>>}

\* LazyCountSet: the hashes seen and the count of those not yet seen
LazyLen(c) == Cardinality(c.set) + c.not_yet_seen
set_not_yet_seen(n) == [set |-> {}, not_yet_seen |-> n]
insert_new(c, e) == [c EXCEPT !.set = @ \cup {e}]

\* the uids of S in ascending order
RECURSIVE Ascending(_)
Ascending(S) ==
  IF S = {} THEN <<>>
  ELSE LET m == CHOOSE a \in S : \A b \in S : a <= b
       IN <<m>> \o Ascending(S \ {m})

\* the watch state a run of examine_updates works on
WatchState ==
  [uid_index |-> uid_index, hash_index |-> hash_index, uidvalidity |-> uidvalidity,
   mailboxes |-> mailboxes, create_count |-> create_count]

WRes(w, x, ok, err) == [w |-> w, x |-> x, ok |-> ok, err |-> err]

Emit(w, ev) == [w EXCEPT !.events = Append(@, ev)]

\* conn.resync(mailbox_hash): without a cache (sync_policy None) there is
\* nothing to reconcile
resync(w, h) == "None"

\* the loop over the rows of the FETCH response: a row whose (mailbox, uid)
\* is in uid_index is skipped; the others are pushed to msn_index, entered
\* in both maps and reported with a Create event
RECURSIVE ExamineRowsMutNoSkip(_, _, _, _)
ExamineRowsMutNoSkip(w, x, h, rows) ==
  IF rows = <<>> THEN WRes(w, x, TRUE, NoErr)
  ELSE LET uid == Head(rows)
           e == generate_envelope_hash(h, uid)
       IN ExamineRowsMutNoSkip(
                 Emit([w EXCEPT !.msn_index[h] = Append(@, uid)],
                      [kind |-> "Create", h |-> h, e |-> e]),
                 [x EXCEPT !.hash_index = insert(@, e, <<uid, h>>),
                           !.uid_index = insert(@, <<h, uid>>, e),
                           !.create_count[e] = @ + 1],
                 h, Tail(rows))

RECURSIVE ExamineRowsMutHashOnly(_, _, _, _)
ExamineRowsMutHashOnly(w, x, h, rows) ==
  IF rows = <<>> THEN WRes(w, x, TRUE, NoErr)
  ELSE LET uid == Head(rows)
           e == generate_envelope_hash(h, uid)
       IN IF contains_key(x.uid_index, <<h, uid>>)
            THEN ExamineRowsMutHashOnly(w, x, h, Tail(rows))
            ELSE ExamineRowsMutHashOnly(
                 Emit([w EXCEPT !.msn_index[h] = Append(@, uid)],
                      [kind |-> "Create", h |-> h, e |-> e]),
                 [x EXCEPT !.hash_index = insert(@, e, <<uid, h>>),
                           !.create_count[e] = @ + 1],
                 h, Tail(rows))

RECURSIVE ExamineRows(_, _, _, _)
ExamineRows(w, x, h, rows) ==
  IF rows = <<>> THEN WRes(w, x, TRUE, NoErr)
  ELSE LET uid == Head(rows)
           e == generate_envelope_hash(h, uid)
       IN IF contains_key(x.uid_index, <<h, uid>>)
            THEN ExamineRows(w, x, h, Tail(rows))
            ELSE ExamineRows(
                 Emit([w EXCEPT !.msn_index[h] = Append(@, uid)],
                      [kind |-> "Create", h |-> h, e |-> e]),
                 [x EXCEPT !.hash_index = insert(@, e, <<uid, h>>),
                           !.uid_index = insert(@, <<h, uid>>, e),
                           !.create_count[e] = @ + 1],
                 h, Tail(rows))

\* envelope assembly: every row is inserted into mailbox.exists
RECURSIVE InsertRows(_, _, _)
InsertRows(c, h, rows) ==
  IF rows = <<>> THEN c
  ELSE InsertRows(insert_new(c, generate_envelope_hash(h, Head(rows))), h, Tail(rows))

\* from the parsed FETCH response on
ExamineFetched(w, x, h, rows) ==
  ExamineRows(w, [x EXCEPT !.mailboxes[h].exists = InsertRows(@, h, rows)], h, rows)

\* the warm path.  recent: the uids that carry \Recent; the server numbers
\* the messages of a mailbox 1..EXISTS and gives message n the uid n
ExamineWarm(w, x, h, recent) ==
  LET exists == srv_exists[h]
      len == LazyLen(x.mailboxes[h].exists)
      low == IF len > 1 THEN len ELSE 1
  IN IF recent # {}
       THEN UNION { IF ~r.ok THEN {WRes(r.w, x, FALSE, r.err)}
                    ELSE IF r.resp # "OK" THEN {WRes(r.w, x, FALSE, Err("None", "parse"))}
                    ELSE { IF ~f.ok THEN WRes(f.w, x, FALSE, f.err)
                           ELSE IF f.resp # "OK" THEN WRes(f.w, x, FALSE, Err("None", "parse"))
                           ELSE ExamineFetched(f.w, x, h, Ascending(recent))
                           : f \in Roundtrip(r.w, "UID FETCH", "FETCH_REQUIRED", "fetch") }
                    : r \in Roundtrip(w, "UID SEARCH RECENT", "SEARCH", "recent") }
     ELSE IF exists > len
       THEN { IF ~f.ok THEN WRes(f.w, x, FALSE, f.err)
              ELSE IF f.resp # "OK" THEN WRes(f.w, x, FALSE, Err("None", "parse"))
              ELSE ExamineFetched(f.w, x, h, Ascending(low..exists))
              : f \in Roundtrip(w, "FETCH", "FETCH_REQUIRED", "fetch") }
     ELSE {WRes(w, x, TRUE, NoErr)}

\* the cold path: the counters are set from the server's totals and the
\* mailbox is marked warm
ExamineCold(w, x, h) ==
  LET done(v) == [v EXCEPT !.mailboxes[h].exists = set_not_yet_seen(srv_exists[h]),
                           !.mailboxes[h].warm = TRUE]
  IN { IF ~r.ok THEN WRes(r.w, x, FALSE, r.err)
       ELSE IF r.resp # "OK" THEN WRes(r.w, x, FALSE, Err("None", "parse"))
       ELSE WRes(r.w, done(x), TRUE, NoErr)
       : r \in IF "LIST-STATUS" \in w.capabilities
                 THEN Roundtrip(w, "LIST RETURN STATUS", "LIST_REQUIRED", "count")
                 ELSE Roundtrip(w, "SEARCH UNSEEN", "SEARCH", "count") }

\* the comparison of the UIDVALIDITY of the EXAMINE response with the
\* stored one, and what follows
ExamineValidity(w, x, h, recent) ==
  IF x.uidvalidity[h] # 0 /\ x.uidvalidity[h] # srv_uidvalidity[h]
    THEN {WRes(Emit(w, [kind |-> "Rescan", h |-> h, e |-> <<>>]), x, TRUE, NoErr)}
  ELSE LET x1 == IF x.uidvalidity[h] = 0
                   THEN [x EXCEPT !.uidvalidity[h] = srv_uidvalidity[h]]
                   ELSE x
       IN IF ~x1.mailboxes[h].warm
            THEN ExamineCold(w, x1, h)
            ELSE ExamineWarm(w, x1, h, recent)

\* examine_updates(mailbox, conn, uid_store)
examine_updates(w, x, h, recent) ==
  IF no_select(h) THEN {WRes(w, x, TRUE, NoErr)}
  ELSE IF resync(w, h) # "None" THEN {WRes(w, x, TRUE, NoErr)}
  ELSE UNION { IF ~s.ok THEN {WRes(s.w, x, FALSE, s.err)}
               ELSE ExamineValidity(s.w, x, h, recent)
               : s \in ConnExamineMailbox(w, h, TRUE) }

(***************************************************************************)
(* idle(kit): the watcher IDLEs on its own connection and uses main_conn   *)
(* for the periodic poll.  Time is counted in minutes.                     *)
(***************************************************************************)
_10_MINS == 10
_5_MINS == 5

\* uid_store.mailboxes of an account that has an INBOX
IdleMailboxes == MailboxHashes \cup {INBOX}

IdleOff == [on |-> FALSE, wait |-> 0, done |-> 0 - 1, watch |-> 0, gap |-> 0 - 1]

\* w: the watcher's own connection and the shared store as World keeps it;
\* x: the watcher's part of the store; m: main_conn
IRes(w, x, m, ok, err) == [w |-> w, x |-> x, m |-> m, ok |-> ok, err |-> err]

OnMain(w, m) == [w EXCEPT !.stream = m.stream, !.sync_policy = m.sync_policy]
BackToOwn(wm, w) == [wm EXCEPT !.stream = w.stream, !.sync_policy = w.sync_policy]
MainOf(wm) == [stream |-> wm.stream, sync_policy |-> wm.sync_policy]

\* main_conn.lock(), then main_conn_lck.connect().await?
MainConnect(w, x, m) ==
  { IRes(BackToOwn(c.w, w), x, MainOf(c.w), c.ok, c.err) : c \in ConnConnect(OnMain(w, m)) }

Recents(h) == IF no_select(h) THEN {{}} ELSE SUBSET (1..srv_exists[h])

LeastOf(hs) == CHOOSE h \in hs : \A g \in hs : h <= g

\* for (_h, mailbox) in mailboxes.clone() { examine_updates(mailbox, &mut
\* conn, ..) } with conn = main_conn; the map is taken in ascending order
RECURSIVE MainExamineAll(_, _, _, _)
MainExamineAll(w, x, m, hs) ==
  IF hs = {} THEN {IRes(w, x, m, TRUE, NoErr)}
  ELSE LET h == LeastOf(hs)
       IN UNION { IF ~r.ok THEN {IRes(BackToOwn(r.w, w), r.x, MainOf(r.w), FALSE, r.err)}
                  ELSE MainExamineAll(BackToOwn(r.w, w), r.x, MainOf(r.w), hs \ {h})
                  : r \in UNION { examine_updates(OnMain(w, m), x, h, rc) : rc \in Recents(h) } }

\* the same loop at start-up, on the watcher's own connection, for every
\* mailbox but the INBOX
RECURSIVE ExaminePeers(_, _, _)
ExaminePeers(w, x, hs) ==
  IF hs = {} THEN {WRes(w, x, TRUE, NoErr)}
  ELSE LET h == LeastOf(hs)
       IN UNION { IF ~r.ok THEN {r} ELSE ExaminePeers(r.w, r.x, hs \ {h})
                  : r \in UNION { examine_updates(w, x, h, rc) : rc \in Recents(h) } }

\* the UIDVALIDITY of the INBOX at start-up: a mismatch emits Rescan and
\* idle() goes on
IdleValidity(w, x) ==
  IF x.uidvalidity[INBOX] = 0
    THEN WRes(w, [x EXCEPT !.uidvalidity[INBOX] = srv_uidvalidity[INBOX]], TRUE, NoErr)
  ELSE IF x.uidvalidity[INBOX] # srv_uidvalidity[INBOX]
    THEN WRes(Emit(w, [kind |-> "Rescan", h |-> INBOX, e |-> <<>>]), x, TRUE, NoErr)
  ELSE WRes(w, x, TRUE, NoErr)

\* idle() up to the first IDLE
IdleStartup(w, x) ==
  UNION { IF ~c.ok THEN {WRes(c.w, x, FALSE, c.err)}
          ELSE UNION { IF ~s.ok THEN {WRes(s.w, x, FALSE, s.err)}
                       ELSE LET v == IdleValidity(s.w, x)
                            IN UNION { IF ~p.ok THEN {p}
                                       ELSE { WRes(i.w, p.x, i.ok, i.err)
                                              : i \in ConnSendCommand(p.w, "IDLE", "idle_w") }
                                       : p \in ExaminePeers(v.w, v.x, IdleMailboxes \ {INBOX}) }
                       : s \in ConnExamineMailbox(c.w, INBOX, TRUE) }
          : c \in ConnConnect(w) }

\* send_raw(b"DONE"), read_response(.., RequiredResponses::empty()),
\* send_command(b"IDLE").  A read_response that returns Ok has given every
\* line of the response to process_untagged.  The calls that returned Ok
\* are recorded in their order.
IdleDoneIdleMutNoRead(w) ==
  UNION { IF ~d.ok THEN {d}
          ELSE { IF i.ok THEN CRes(Call(i.w, "IDLE", NoErr), TRUE, NoErr, "") ELSE i
                 : i \in ConnSendCommand(Call(Call(d.w, "DONE", NoErr), "process_untagged", NoErr),
                                         "IDLE", "idle_w") }
          : d \in ConnSendRaw(w) }

IdleDoneIdle(w) ==
  UNION { IF ~d.ok THEN {d}
          ELSE UNION { IF ~r.ok THEN {r}
                       ELSE { IF i.ok THEN CRes(Call(i.w, "IDLE", NoErr), TRUE, NoErr, "") ELSE i
                              : i \in ConnSendCommand(
                                        Call(Call(r.w, "read_response", NoErr),
                                             "process_untagged", NoErr),
                                        "IDLE", "idle_w") }
                       : r \in ConnReadResponse(Call(d.w, "DONE", NoErr), "EMPTY", "done") }
          : d \in ConnSendRaw(w) }

\* Err(_) of the timeout: the heartbeat
IdleOnTimeout(w, x, m) ==
  UNION { IF ~r.ok THEN {IRes(r.w, x, m, FALSE, r.err)}
          ELSE MainConnect(r.w, x, m)
          : r \in IdleDoneIdle(w) }

\* Ok(Some(line)): the poll of all mailboxes when it is due, then the
\* lines.  ignored: every line is a "+ " or "* OK" line
IdleOnLine(w, x, m, due, ignored) ==
  UNION { IF ~q.ok THEN {q}
          ELSE IF ignored THEN {q}
          ELSE { IRes(r.w, q.x, q.m, r.ok, r.err) : r \in IdleDoneIdle(q.w) }
          : q \in IF due THEN MainExamineAll(w, x, m, IdleMailboxes)
                        ELSE {IRes(w, x, m, TRUE, NoErr)} }

\* Ok(None): blockn.conn.connect().await?, main_conn_lck.connect().await?,
\* continue
IdleOnDropped(w, x, m) ==
  UNION { IF ~c.ok THEN {IRes(c.w, x, m, FALSE, c.err)}
          ELSE MainConnect(c.w, x, m)
          : c \in ConnConnect(w) }

(***************************************************************************)
(* ImapBlockingConnection.  A line is [id, ignored]: id numbers the lines  *)
(* in the order the server sent them, ignored tells a "+ " or "* OK" line. *)
(* result holds whole lines; prev_res_length counts lines.                 *)
(***************************************************************************)
BlockingFrom == [result |-> <<>>, prev_res_length |-> 0]

\* as_stream with q unread on the socket: the line returned by the previous
\* call is drained, then the socket is read, also when result still holds a
\* whole line.  One read returns what has arrived, the first k lines of q
\* (a read that ends within a line is completed by the following read); the
\* line returned is the first line of result.
as_stream(b, q) ==
  LET drained == SubSeq(b.result, b.prev_res_length + 1, Len(b.result))
  IN { LET result == drained \o SubSeq(q, 1, k)
       IN [b |-> [result |-> result, prev_res_length |-> 1],
           q |-> SubSeq(q, k + 1, Len(q)),
           line |-> result[1]]
       : k \in 1..Len(q) }

\* the lines of a response that read_response gives to process_untagged
RECURSIVE UntaggedIds(_)
UntaggedIds(q) ==
  IF q = <<>> THEN <<>>
  ELSE IF Head(q).ignored THEN UntaggedIds(Tail(q))
  ELSE <<Head(q).id>> \o UntaggedIds(Tail(q))

\* the step of idle() has reached the loop over the lines of the response
ProcessedLines(w) == \E i \in DOMAIN w.calls : w.calls[i].e = "process_untagged"

(***************************************************************************)
(* ImapStream::new_connection, the STARTTLS exchange (IMAP protocol), step *)
(* by step.  What the server sends is a sequence of items: "greet" is a    *)
(* line "* OK ..", "ok" a line "M1 OK ..", "no" a line "M1 NO ..", "junk"  *)
(* bytes that are no IMAP line (the records of a TLS server).  ends tells  *)
(* what the server does after its script: it stays silent with the socket  *)
(* open ("open"), closes it ("close") or resets it ("reset").  Time is     *)
(* counted in seconds since `now' was taken.                               *)
(***************************************************************************)
StartTlsSecs == 3

Port993Msg == "STARTTLS failed. Server port is set to 993, which normally uses TLS. Maybe try disabling use_starttls."

\* port993: server_conf.server_port == 993
err_fn(port993) == IF port993 THEN Port993Msg ELSE "STARTTLS failed. Is the connection already encrypted?"

RECURSIVE SeqsUpTo(_, _)
SeqsUpTo(S, n) ==
  IF n = 0 THEN {<<>>}
  ELSE LET shorter == SeqsUpTo(S, n - 1)
       IN shorter \cup {Append(q, x) : q \in shorter, x \in S}

StartTlsOff ==
  [port993 |-> FALSE, script0 |-> <<>>, script |-> <<>>, ends |-> "open", ended |-> "open",
   unread |-> <<>>, pc |-> "off", elapsed |-> 0, response |-> <<>>,
   ret |-> [ok |-> TRUE, msg |-> ""]]

StartTlsDone(ok, msg) == [tls EXCEPT !.pc = "done", !.ret = [ok |-> ok, msg |-> msg]]

\* socket.write_all(b"M1 STARTTLS\r\n") and socket.flush(), each with
\* .chain_err_summary(err_fn)?
StartTlsWrite ==
  /\ tls.pc = "write"
  /\ \E failed \in BOOLEAN :
       tls' = IF failed THEN StartTlsDone(FALSE, err_fn(tls.port993))
              ELSE [tls EXCEPT !.pc = "test"]

\* while now.elapsed().as_secs() < 3 { .. }; if !broken { return Err(..) }
StartTlsTest ==
  /\ tls.pc = "test"
  /\ tls' = IF tls.elapsed < StartTlsSecs THEN [tls EXCEPT !.pc = "read"]
            ELSE StartTlsDone(FALSE, "Could not initiate STARTTLS negotiation")

\* the body of the loop after a read of len bytes: a greeting at the start
\* of response is drained; response.starts_with(b"M1 OK") leaves the loop
\* with broken = true and the TLS handshake begins
StartTlsGot(response) ==
  LET drained == IF response # <<>> /\ Head(response) = "greet" THEN Tail(response)
                 ELSE response
  IN IF drained # <<>> /\ Head(drained) = "ok"
       THEN [StartTlsDone(TRUE, "") EXCEPT !.response = drained]
       ELSE [tls EXCEPT !.pc = "test", !.response = drained]

\* socket.read(&mut buf).await.chain_err_summary(err_fn)?: it completes
\* when bytes have arrived, when the server has closed (len = 0) or with the
\* error of a reset; nothing limits the time it waits
StartTlsRead ==
  /\ tls.pc = "read"
  /\ \/ \E k \in 1..Len(tls.unread) :
          LET got == StartTlsGot(tls.response \o SubSeq(tls.unread, 1, k))
          IN tls' = [got EXCEPT !.unread = SubSeq(tls.unread, k + 1, Len(tls.unread))]
     \/ /\ tls.unread = <<>>
        /\ tls.ended = "close"
        /\ tls' = StartTlsGot(tls.response)
     \/ /\ tls.unread = <<>>
        /\ tls.ended = "reset"
        /\ tls' = StartTlsDone(FALSE, err_fn(tls.port993))

\* a second passes while the read waits
StartTlsSecond ==
  /\ tls.pc = "read"
  /\ tls.elapsed < StartTlsSecs
  /\ tls' = [tls EXCEPT !.elapsed = @ + 1]

\* the server sends the next item of its script
StartTlsServerSend ==
  /\ tls.pc # "off"
  /\ tls.script # <<>>
  /\ tls' = [tls EXCEPT !.script = Tail(@), !.unread = Append(@, Head(tls.script))]

\* the server has sent its script and closes or resets the socket
StartTlsServerEnd ==
  /\ tls.pc # "off"
  /\ tls.script = <<>>
  /\ tls.ended = "open"
  /\ tls.ends # "open"
  /\ tls' = [tls EXCEPT !.ended = tls.ends]

(***************************************************************************)
(* ImapType::watch (imap.rs): the thread that watches one folder with      *)
(* IDLE.  step is what the handling of the last line did: the line, the    *)
(* prev_exists it found, the commands it sent and the events it sent to    *)
(* the consumer.  exit_on_error!: an Err sends a Failure event and ends    *)
(* the process.                                                            *)
(***************************************************************************)
Counts == 0..MaxExists

FolderWatchOff ==
  [on |-> FALSE, exited |-> FALSE, prev_exists |-> 0,
   step |-> [line |-> <<"none", 0>>, beat |-> FALSE, prev |-> 0, sent |-> <<>>,
             events |-> <<>>]]

\* the untagged lines that protocol_parser::untagged_responses tells apart,
\* and one that it does not parse

\* one expression of exit_on_error! on every thread state of S that has not
\* exited: it succeeds, or it fails, a Failure event is sent and the process
\* exits.  read: the expression is a read_response and sends nothing.
ExitOnError(S, cmd) ==
  UNION { IF f.exited THEN {f}
          ELSE { IF cmd = "read" THEN f ELSE [f EXCEPT !.step.sent = Append(@, cmd)],
                 [f EXCEPT !.exited = TRUE,
                           !.step.events = Append(@, <<"Failure", 0>>)] }
          : f \in S }

\* the rows of a fetch response are sent as Create events; a response that
\* does not parse is only logged
CreateRows(S, rows) ==
  UNION { IF f.exited THEN {f}
          ELSE { f,
                 [f EXCEPT !.step.events =
                             @ \o [i \in 1..Len(rows) |-> <<"Create", rows[i]>>]] }
          : f \in S }

Numbers(a, b) == [i \in 1..(b - a + 1) |-> a + i - 1]

SetPrevExists(S, n) == { IF f.exited THEN f ELSE [f EXCEPT !.prev_exists = n] : f \in S }

\* if now.duration_since(beat) >= _26_mins { .. }
HeartBeat(S) ==
  ExitOnError(ExitOnError(ExitOnError(ExitOnError(ExitOnError(
    S, "DONE"), "read"), "IDLE"), "NOOP"), "read")

\* Ok(Some(Recent(_))): recent is what UID SEARCH RECENT returns
RecentArm(S, recent) ==
  LET searched == ExitOnError(ExitOnError(ExitOnError(ExitOnError(
                    S, "DONE"), "read"), "UID SEARCH RECENT"), "read")
      fetched == IF recent = <<>> THEN searched
                 ELSE CreateRows(ExitOnError(ExitOnError(searched, "UID FETCH"), "read"),
                                 recent)
  IN ExitOnError(fetched, "IDLE")

ExistsArmMutFetchOnChange(S, n) ==
  LET done == ExitOnError(ExitOnError(S, "DONE"), "read")
      handled ==
        UNION { IF f.exited THEN {f}
                ELSE IF n # f.prev_exists
                  THEN SetPrevExists(
                         CreateRows(ExitOnError(ExitOnError({f}, "FETCH"), "read"),
                                    Numbers(f.prev_exists + 1, n)), n)
                ELSE {f}
                : f \in done }
  IN ExitOnError(handled, "IDLE")

\* Ok(Some(Exists(n)))
ExistsArm(S, n) ==
  LET done == ExitOnError(ExitOnError(S, "DONE"), "read")
      handled ==
        UNION { IF f.exited THEN {f}
                ELSE IF n > f.prev_exists
                  THEN SetPrevExists(
                         CreateRows(ExitOnError(ExitOnError({f}, "FETCH"), "read"),
                                    Numbers(f.prev_exists + 1, n)), n)
                ELSE IF n < f.prev_exists THEN {[f EXCEPT !.prev_exists = n]}
                ELSE {f}
                : f \in done }
  IN ExitOnError(handled, "IDLE")

\* the body of `while let Some(line) = iter.next()'
FolderWatchOnLine(f, line, beat, recent) ==
  LET f0 == [f EXCEPT !.step = [line |-> line, beat |-> beat, prev |-> f.prev_exists,
                                sent |-> <<>>, events |-> <<>>]]
      S == IF beat THEN HeartBeat({f0}) ELSE {f0}
  IN CASE line[1] = "Recent" -> RecentArm(S, recent)
       [] line[1] = "Exists" -> ExistsArm(S, line[2])
       [] OTHER -> S

\* the thread up to its first IDLE: the greeting is read, the folder is
\* selected, prev_exists is the EXISTS of the select response
FolderWatchStart ==
  /\ ~folder_watch.on
  /\ \E exists \in Counts :
       LET f0 == [FolderWatchOff EXCEPT !.on = TRUE, !.step.line = <<"select", exists>>]
       IN folder_watch' \in SetPrevExists(ExitOnError(ExitOnError(ExitOnError(ExitOnError(
                              {f0}, "read"), "SELECT"), "read"), "IDLE"), exists)

FolderWatchLine ==
  /\ folder_watch.on
  /\ ~folder_watch.exited
  /\ \E line \in {<<"Exists", n>> : n \in Counts} \cup {<<"Expunge", n>> : n \in Counts \ {0}}
                  \cup {<<"Recent", 0>>, <<"other", 0>>},
        beat \in BOOLEAN, recent \in {<<>>, <<1>>} :
       folder_watch' \in FolderWatchOnLine(folder_watch, line, beat, recent)

(***************************************************************************)
(* ImapStream::read_lines, read by read.  Bytes are "t" (the termination   *)
(* string, the tag prefix "M<n> "), "b" (the bytes "* BYE"), "r" (CR),     *)
(* "n" (LF) and "x" (anything else).  The server sends lines: "U" an       *)
(* untagged line, "T" the tagged line, "B" a line "* BYE ..", "L" an       *)
(* untagged line with a literal: its first part ends with "{N}" CR LF, the *)
(* N bytes of the literal are a line that begins like the tagged line, and *)
(* the rest of the line follows.  Offsets count from 0 as in the source.   *)
(***************************************************************************)
BytesOf(item) ==
  CASE item = "U" -> <<"x", "r", "n">>
    [] item = "T" -> <<"t", "r", "n">>
    [] item = "B" -> <<"b", "r", "n">>
    [] item = "L" -> <<"x", "r", "n", "t", "r", "n", "x", "r", "n">>

RECURSIVE Flatten(_)
Flatten(items) == IF items = <<>> THEN <<>> ELSE BytesOf(Head(items)) \o Flatten(Tail(items))

\* q[a..b]
Slice(q, a, b) == SubSeq(q, a + 1, b)

\* q.rfind(b"\r\n"); -1 for None
rfind(q) ==
  LET at == {i \in 0..(Len(q) - 2) : q[i + 1] = "r" /\ q[i + 2] = "n"}
  IN IF at = {} THEN 0 - 1 ELSE CHOOSE i \in at : \A j \in at : j <= i

starts_with(q, c) == Len(q) >= 1 /\ q[1] = c

ReadLinesOff ==
  [pc |-> "off", items |-> <<>>, ends |-> "open", keep |-> TRUE, bytes |-> <<>>,
   read |-> 0, ret |-> <<>>, last_line_idx |-> 0, eof |-> FALSE, err |-> ""]

\* the arm Ok(b) of the loop on a call state c whose ret has been extended
ReadLinesGot(c) ==
  LET rest == Slice(c.ret, c.last_line_idx, Len(c.ret))
      pos0 == rfind(rest)
      prev_line == rfind(Slice(rest, 0, pos0))
      idx1 == IF prev_line >= 0 THEN c.last_line_idx + prev_line + 2 ELSE c.last_line_idx
      pos1 == IF prev_line >= 0 THEN pos0 - (prev_line + 2) ELSE pos0
  IN IF pos0 < 0 THEN c
     ELSE IF starts_with(rest, "b") THEN [c EXCEPT !.pc = "err", !.err = "Disconnected"]
     ELSE IF pos1 + 2 = Len(c.ret) - idx1 /\ starts_with(Slice(c.ret, idx1, Len(c.ret)), "t")
       THEN [c EXCEPT !.pc = "ok", !.last_line_idx = idx1,
                      !.ret = IF c.keep THEN @ ELSE Slice(@, 0, idx1)]
     ELSE [c EXCEPT !.last_line_idx = idx1 + pos1 + 2]

\* self.stream.read(&mut buf) returns the next k bytes
ReadLinesRead ==
  /\ rl.pc = "reading"
  /\ \E k \in 1..(Len(rl.bytes) - rl.read) :
       rl' = ReadLinesGot([rl EXCEPT !.read = @ + k,
                                     !.ret = @ \o Slice(rl.bytes, rl.read, rl.read + k)])

\* the server has closed the connection: Ok(0) => break, and Ok(()) is
\* returned
ReadLinesEof ==
  /\ rl.pc = "reading"
  /\ rl.read = Len(rl.bytes)
  /\ rl.ends = "close"
  /\ rl' = [rl EXCEPT !.pc = "ok", !.eof = TRUE]

\* nothing arrives: timeout(self.timeout, ..).await? returns the error
ReadLinesTimeout ==
  /\ rl.pc = "reading"
  /\ rl.read = Len(rl.bytes)
  /\ rl.ends = "open"
  /\ rl' = [rl EXCEPT !.pc = "err", !.err = "TimedOut"]

(***************************************************************************)
(* The state machine                                                       *)
(***************************************************************************)
InitConn ==
  /\ conf \in Confs
  /\ server \in ServerProfiles
  /\ now = 0
  /\ stream = ErrStream(OfflineErr)
  /\ sync_policy = IF conf.keep_offline_cache THEN "Basic" ELSE "None"
  /\ is_online = [time |-> 0, ok |-> FALSE]
  /\ capabilities = {}
  /\ msn_index = [h \in StoreMailboxes |-> <<>>]
  /\ srv_exists = [h \in StoreMailboxes |-> 0]
  /\ uid_index = {}
  /\ hash_index = {}
  /\ uidvalidity = [h \in StoreMailboxes |-> 0]
  /\ mailboxes = [h \in StoreMailboxes |-> [exists |-> [set |-> {}, not_yet_seen |-> 0], warm |-> FALSE]]
  /\ create_count = [e \in EnvelopeHashes |-> 0]
  /\ srv_uidvalidity = [h \in StoreMailboxes |-> 1]
  /\ poll = [on |-> FALSE, left |-> {}]
  /\ idle = IdleOff
  /\ main_conn = [stream |-> ErrStream(OfflineErr),
                  sync_policy |-> IF conf.keep_offline_cache THEN "Basic" ELSE "None"]
  /\ wire = [n |-> 0, q |-> <<>>, drops |-> 0]
  /\ blockn = BlockingFrom
  /\ processed = <<>>
  /\ last = [op |-> "new", h |-> 0, force |-> FALSE, required |-> "",
             preOk |-> FALSE, preErr |-> NoErr, preBroken |-> FALSE, preSel |-> SelNone,
             preStale |-> FALSE,
             sent |-> <<>>, calls |-> <<>>, faults |-> <<>>, opens |-> <<>>, notices |-> 0,
             events |-> <<>>,
             ret |-> [ok |-> TRUE, val |-> "", err |-> NoErr]]

(***************************************************************************)
(* ImapType::get (imap.rs): the closure that loads a folder.  n is the     *)
(* EXISTS count of the EXAMINE response, fetched the ranges lo:hi of the   *)
(* UID FETCH commands sent, sent the AsyncStatus messages sent on tx.      *)
(* exit_on_error!: an Err is sent as Payload(Err) and the process exits.   *)
(***************************************************************************)
FetchChunk == 10000

GetOff == [pc |-> "off", n |-> 0, exists |-> 0, fetched |-> <<>>, sent |-> <<>>]

\* usize::saturating_sub
saturating_sub(a, b) == IF a > b THEN a - b ELSE 0

\* std::cmp::max(exists.saturating_sub(10000), 1)
FetchLow(exists) ==
  IF saturating_sub(exists, FetchChunk) > 1 THEN saturating_sub(exists, FetchChunk) ELSE 1

\* EXAMINE, read_response and select_response under exit_on_error!;
\* exists = ok.exists
GetExamine ==
  /\ get.pc = "examine"
  /\ \E failed \in BOOLEAN :
       get' = IF failed THEN [get EXCEPT !.pc = "exited", !.sent = Append(@, "PayloadErr")]
              ELSE [get EXCEPT !.pc = "loop", !.exists = get.n]

\* one iteration of `while exists > 1': the UID FETCH of low:exists under
\* exit_on_error!; a response that does not parse is sent as Payload(Err);
\* exists = low; Payload(Ok(envelopes)) is sent
GetFetch ==
  /\ get.pc = "loop"
  /\ get.exists > 1
  /\ \E outcome \in {"ok", "parse", "io"} :
       get' = CASE outcome = "io" ->
                     [get EXCEPT !.pc = "exited", !.sent = Append(@, "PayloadErr")]
                [] outcome = "parse" ->
                     [get EXCEPT !.fetched = Append(@, <<FetchLow(get.exists), get.exists>>),
                                 !.exists = FetchLow(get.exists),
                                 !.sent = @ \o <<"PayloadErr", "Payload">>]
                [] outcome = "ok" ->
                     [get EXCEPT !.fetched = Append(@, <<FetchLow(get.exists), get.exists>>),
                                 !.exists = FetchLow(get.exists),
                                 !.sent = Append(@, "Payload")]

\* the loop has ended: tx.send(AsyncStatus::Finished)
GetFinish ==
  /\ get.pc = "loop"
  /\ get.exists <= 1
  /\ get' = [get EXCEPT !.pc = "done", !.sent = Append(@, "Finished")]

Init ==
  /\ InitConn
  /\ tls = StartTlsOff
  /\ folder_watch = FolderWatchOff
  /\ rl = ReadLinesOff
  /\ get = GetOff

\* the caller sees the result o of the call
ReturnConn(o, val) ==
  /\ stream' = [o.w.stream EXCEPT !.idx = 0]
  /\ sync_policy' = o.w.sync_policy
  /\ is_online' = o.w.is_online
  /\ capabilities' = o.w.capabilities
  /\ msn_index' = o.w.msn_index
  /\ last' = [op |-> o.w.op, h |-> o.w.h, force |-> o.w.force, required |-> o.w.required,
              preOk |-> o.w.preOk, preErr |-> o.w.preErr, preBroken |-> o.w.preBroken,
              preSel |-> o.w.preSel,
              preStale |-> is_online.ok /\ now - is_online.time >= IMAP_PROTOCOL_TIMEOUT,
              sent |-> o.w.sent, calls |-> o.w.calls, faults |-> o.w.faults,
              opens |-> o.w.opens, notices |-> o.w.notices, events |-> o.w.events,
              ret |-> [ok |-> o.ok, val |-> val, err |-> o.err]]

Return(o, val) ==
  /\ ReturnConn(o, val)
  /\ UNCHANGED <<conf, now, server, srv_exists, srv_uidvalidity>>
  /\ UNCHANGED watchVars
  /\ UNCHANGED <<idleVars, stepVars>>

\* cmd_id is kept within the bound of the model
CmdRoom == ~stream.ok \/ stream.cmd_id <= MaxCmd

Connect ==
  /\ CmdRoom
  /\ \E o \in ConnConnect(World("connect", 0, FALSE, "")) : Return(o, "")

SendCommand ==
  /\ CmdRoom
  /\ \E o \in ConnSendCommand(World("send_command", 0, FALSE, ""), "CMD", "cmd") : Return(o, "")

SendLiteral ==
  /\ CmdRoom
  /\ \E o \in ConnSendLiteral(World("send_literal", 0, FALSE, "")) : Return(o, "")

SendRaw ==
  /\ CmdRoom
  /\ \E o \in ConnSendRaw(World("send_raw", 0, FALSE, "")) : Return(o, "")

Save ==
  /\ CmdRoom
  /\ \E o \in ConnSave(World("save", 0, FALSE, "")) : Return(o, "")

ReadResponse ==
  /\ CmdRoom
  /\ \E required \in {"EMPTY", "NO_REQUIRED"} :
       \E o \in ConnReadResponse(World("read_response", 0, FALSE, required),
                                 required, "resp") : Return(o, "")

SelectMailbox ==
  /\ CmdRoom
  /\ \E h \in MailboxHashes, force \in BOOLEAN :
       \E o \in ConnSelectMailbox(World("select_mailbox", h, force, ""), h, force) : Return(o, o.val)

ExamineMailbox ==
  /\ CmdRoom
  /\ \E h \in MailboxHashes, force \in BOOLEAN :
       \E o \in ConnExamineMailbox(World("examine_mailbox", h, force, ""), h, force) : Return(o, o.val)

Unselect ==
  /\ CmdRoom
  /\ \E select \in {SelectOf(paths) : paths \in SUBSET (blurdybloop..MaxPs)} :
       \E o \in ConnUnselect(World("unselect", 0, FALSE, ""), select) : Return(o, "")

\* connect() by a caller that found the connection offline
Reconnect ==
  /\ ~stream.ok
  /\ Connect

\* one run of examine_updates on the connection, as the poll watcher does
\* for every mailbox in turn
WatchRoom == ~stream.ok \/ stream.cmd_id <= MaxWatchCmd

ExamineUpdates ==
  /\ WatchRoom
  /\ \E h \in MailboxHashes :
       \E recent \in (IF no_select(h) THEN {{}} ELSE SUBSET (1..srv_exists[h])) :
         \E o \in examine_updates(World("examine_updates", h, TRUE, ""), WatchState, h, recent) :
           /\ ReturnConn(o, "")
           /\ uid_index' = o.x.uid_index
           /\ hash_index' = o.x.hash_index
           /\ uidvalidity' = o.x.uidvalidity
           /\ mailboxes' = o.x.mailboxes
           /\ create_count' = o.x.create_count
           /\ UNCHANGED <<conf, now, server, srv_exists, srv_uidvalidity, poll>>
           /\ UNCHANGED <<idleVars, stepVars>>

\* what a step of the watcher leaves behind.  The watcher owns the
\* connection of its kit: when the watcher ends with an Err the connection
\* is dropped with it, and what remains to be seen is the error and the
\* events that were emitted.  What the connection was like before the step
\* is not recorded.
PollReturn(o) ==
  /\ stream' = IF o.ok THEN [o.w.stream EXCEPT !.idx = 0] ELSE ErrStream(OfflineErr)
  /\ sync_policy' = IF o.ok THEN o.w.sync_policy
                    ELSE IF conf.keep_offline_cache THEN "Basic" ELSE "None"
  /\ is_online' = o.w.is_online
  /\ capabilities' = o.w.capabilities
  /\ msn_index' = o.w.msn_index
  /\ last' = [op |-> o.w.op, h |-> o.w.h, force |-> o.w.force, required |-> o.w.required,
              preOk |-> FALSE, preErr |-> NoErr, preBroken |-> FALSE, preSel |-> SelNone,
              preStale |-> FALSE,
              sent |-> IF o.ok THEN o.w.sent ELSE <<>>,
              calls |-> IF o.ok THEN o.w.calls ELSE <<>>,
              faults |-> IF o.ok THEN o.w.faults ELSE <<>>,
              opens |-> IF o.ok THEN o.w.opens ELSE <<>>,
              notices |-> IF o.ok THEN o.w.notices ELSE 0,
              events |-> o.w.events,
              ret |-> [ok |-> o.ok, val |-> "", err |-> o.err]]

\* poll_with_examine starts on the connection of its kit, which has not been
\* connected: conn.connect().await?, then the mailboxes are cloned
PollConnect ==
  /\ ~poll.on
  /\ \E o \in ConnConnect([World("poll_with_examine", 0, FALSE, "") EXCEPT
                               !.stream = ErrStream(OfflineErr),
                               !.preOk = FALSE, !.preErr = OfflineErr,
                               !.preBroken = FALSE, !.preSel = SelNone]) :
       /\ PollReturn(o)
       /\ poll' = [on |-> o.ok, left |-> IF o.ok THEN MailboxHashes ELSE {}]
  /\ UNCHANGED <<conf, now, server, srv_exists, srv_uidvalidity>>
  /\ UNCHANGED <<uid_index, hash_index, uidvalidity, mailboxes, create_count>>
  /\ UNCHANGED <<idleVars, stepVars>>

\* one step of the loop of poll_with_examine: examine_updates(..).await? on
\* a mailbox that this round has not visited (a HashMap is iterated in any
\* order); after the last one the watcher sleeps and the next round begins.
\* An Err ends the watcher.
PollExamine ==
  /\ poll.on
  /\ WatchRoom
  /\ \E h \in poll.left :
       \E recent \in (IF no_select(h) THEN {{}} ELSE SUBSET (1..srv_exists[h])) :
         \E o \in examine_updates(World("examine_updates", h, TRUE, ""), WatchState, h, recent) :
           /\ PollReturn(o)
           /\ uid_index' = o.x.uid_index
           /\ hash_index' = o.x.hash_index
           /\ uidvalidity' = o.x.uidvalidity
           /\ mailboxes' = o.x.mailboxes
           /\ create_count' = o.x.create_count
           /\ poll' = IF ~o.ok THEN [on |-> FALSE, left |-> {}]
                      ELSE IF poll.left = {h} THEN [on |-> TRUE, left |-> MailboxHashes]
                      ELSE [on |-> TRUE, left |-> poll.left \ {h}]
  /\ UNCHANGED <<conf, now, server, srv_exists, srv_uidvalidity>>
  /\ UNCHANGED <<idleVars, stepVars>>

\* the server replaces a mailbox: its UIDVALIDITY changes
ChangeUidValidity ==
  /\ \E h \in SelectableMailboxes :
       /\ srv_uidvalidity[h] < MaxValidity
       /\ srv_uidvalidity' = [srv_uidvalidity EXCEPT ![h] = @ + 1]
  /\ UNCHANGED <<conf, now, stream, sync_policy, is_online, capabilities, msn_index, server,
                 srv_exists, last>>
  /\ UNCHANGED watchVars
  /\ UNCHANGED <<idleVars, stepVars>>

\* time passes
Tick ==
  /\ \E d \in {IMAP_PROTOCOL_TIMEOUT} : now + d <= MaxTime /\ now' = now + d
  /\ UNCHANGED <<conf, stream, sync_policy, is_online, capabilities, msn_index, server, srv_exists, last>>
  /\ UNCHANGED <<watchVars, srv_uidvalidity, idleVars, stepVars>>

\* a message is delivered to a mailbox of the server
Deliver ==
  /\ \E h \in SelectableMailboxes :
       /\ srv_exists[h] < MaxExists
       /\ srv_exists' = [srv_exists EXCEPT ![h] = @ + 1]
  /\ UNCHANGED <<conf, now, stream, sync_policy, is_online, capabilities, msn_index, server, last>>
  /\ UNCHANGED <<watchVars, srv_uidvalidity, idleVars, stepVars>>

\* a message is delivered to a mailbox that the watcher has warmed
DeliverWarm ==
  /\ \E h \in SelectableMailboxes :
       /\ mailboxes[h].warm
       /\ srv_exists[h] < MaxArrivals
       /\ srv_exists' = [srv_exists EXCEPT ![h] = @ + 1]
  /\ UNCHANGED <<conf, now, stream, sync_policy, is_online, capabilities, msn_index, server, last>>
  /\ UNCHANGED <<watchVars, srv_uidvalidity, idleVars, stepVars>>

(***************************************************************************)
(* Spec: the life cycle of one connection (connect, the send and read      *)
(* primitives, the clock), for every configuration and server.             *)
(***************************************************************************)
Next ==
  \/ Connect
  \/ SendCommand
  \/ SendLiteral
  \/ SendRaw
  \/ ReadResponse
  \/ Tick

Spec == Init /\ [][Next]_vars

(***************************************************************************)
(* SpecSave: messages are saved (APPEND with a literal) on a connection    *)
(* that is connected again when it is found offline.                       *)
(***************************************************************************)
NextSave ==
  \/ Reconnect
  \/ Save

SpecSave == Init /\ [][NextSave]_vars

(***************************************************************************)
(* SpecMbox: mailbox selection on a connection to a server that accepts    *)
(* the login; the caller connects whenever it finds the stream Err.        *)
(***************************************************************************)
InitMbox ==
  /\ Init
  /\ ~conf.use_starttls
  /\ "IMAP4rev1" \in server.pre
  /\ "LOGINDISABLED" \notin server.pre
  /\ server.vol # "tagged"

NextMbox ==
  \/ Reconnect
  \/ SelectMailbox
  \/ ExamineMailbox
  \/ Unselect
  \/ Deliver

SpecMbox == InitMbox /\ [][NextMbox]_vars

(***************************************************************************)
(* SpecWatch: the poll watcher (poll_with_examine) on an account without   *)
(* offline cache, while messages arrive.  A watcher that has ended with an *)
(* error or was cancelled is started again.                                *)
(***************************************************************************)
InitWatch ==
  /\ InitMbox
  /\ ~conf.oauth2
  /\ ~conf.keep_offline_cache

\* the watch job is cancelled: the watcher and its connection are dropped
PollDrop ==
  /\ poll.on
  /\ poll' = [on |-> FALSE, left |-> {}]
  /\ stream' = ErrStream(OfflineErr)
  /\ sync_policy' = IF conf.keep_offline_cache THEN "Basic" ELSE "None"
  /\ last' = [op |-> "drop", h |-> 0, force |-> FALSE, required |-> "",
              preOk |-> FALSE, preErr |-> NoErr, preBroken |-> FALSE, preSel |-> SelNone,
              preStale |-> FALSE,
              sent |-> <<>>, calls |-> <<>>, faults |-> <<>>, opens |-> <<>>, notices |-> 0,
              events |-> <<>>,
              ret |-> [ok |-> TRUE, val |-> "", err |-> NoErr]]
  /\ UNCHANGED <<conf, now, is_online, capabilities, msn_index, server, srv_exists,
                 srv_uidvalidity, uid_index, hash_index, uidvalidity, mailboxes, create_count>>
  /\ UNCHANGED <<idleVars, stepVars>>

\* what a step of idle() leaves behind
IdleReturn(o) ==
  /\ PollReturn(o)
  /\ main_conn' = o.m
  /\ uid_index' = o.x.uid_index
  /\ hash_index' = o.x.hash_index
  /\ uidvalidity' = o.x.uidvalidity
  /\ mailboxes' = o.x.mailboxes
  /\ create_count' = o.x.create_count
  /\ UNCHANGED <<conf, now, server, srv_exists, srv_uidvalidity, poll>>
  /\ UNCHANGED stepVars

\* idle() starts on the connection of its kit, which has not been connected,
\* and runs up to its first IDLE
IdleStart ==
  /\ ~idle.on
  /\ \E o \in IdleStartup([World("idle", INBOX, TRUE, "") EXCEPT
                               !.stream = ErrStream(OfflineErr),
                               !.preOk = FALSE, !.preErr = OfflineErr,
                               !.preBroken = FALSE, !.preSel = SelNone], WatchState) :
       /\ IdleReturn(IRes(o.w, o.x, main_conn, o.ok, o.err))
       /\ idle' = IF o.ok THEN [on |-> TRUE, wait |-> now, done |-> 0 - 1, watch |-> now,
                                gap |-> 0 - 1]
                  ELSE IdleOff
  /\ wire' = [wire EXCEPT !.q = <<>>]
  /\ blockn' = BlockingFrom
  /\ UNCHANGED processed

\* the loop of idle(): timeout(Some(_10_MINS), ..) has expired, no line has
\* arrived.  gap: the minutes since the previous DONE
IdleTimeout ==
  /\ idle.on
  /\ now - idle.wait >= _10_MINS
  /\ wire.q = <<>>
  /\ \E o \in IdleOnTimeout(World("idle_heartbeat", INBOX, FALSE, ""), WatchState, main_conn) :
       /\ IdleReturn(o)
       /\ idle' = IF o.ok THEN [idle EXCEPT !.wait = now, !.done = now,
                                            !.gap = IF idle.done < 0 THEN 0 - 1
                                                    ELSE now - idle.done]
                  ELSE IdleOff
       /\ blockn' = IF o.ok THEN blockn ELSE BlockingFrom
  /\ UNCHANGED <<wire, processed>>

\* the loop of idle(): as_stream returns a line before the timeout expires.
\* When the line is not ignored, DONE is sent and read_response reads what
\* is unread on the socket up to the tagged line and gives it to
\* process_untagged (connection.rs:767); the line that as_stream returned
\* is given to process_untagged after that (watch.rs:192).
IdleLine ==
  /\ idle.on
  /\ wire.q # <<>>
  /\ now - idle.wait < _10_MINS
  /\ \E a \in as_stream(blockn, wire.q) :
       \E o \in IdleOnLine(World(IF a.line.ignored THEN "idle_ignored_line" ELSE "idle_line",
                                 INBOX, FALSE, ""),
                           WatchState, main_conn, now - idle.watch >= _5_MINS,
                           a.line.ignored) :
         /\ IdleReturn(o)
         /\ idle' = IF o.ok
                      THEN [idle EXCEPT !.wait = now,
                                        !.watch = IF now - idle.watch >= _5_MINS THEN now ELSE @,
                                        !.done = IF a.line.ignored THEN @ ELSE now]
                    ELSE IdleOff
         /\ processed' = IF ProcessedLines(o.w)
                           THEN processed \o UntaggedIds(a.q) \o <<a.line.id>>
                         ELSE processed
         /\ blockn' = IF o.ok THEN a.b ELSE BlockingFrom
         /\ wire' = [wire EXCEPT !.q = IF ~o.ok \/ ProcessedLines(o.w) THEN <<>> ELSE a.q]

\* the loop of idle(): as_stream returns None, because the server has
\* closed the socket (read returns Ok(0)) or the read has failed.  The loop
\* then waits anew, with a new timeout, on what connect() has left.
IdleDropped ==
  /\ idle.on
  /\ now - idle.wait < _10_MINS
  /\ wire.drops < MaxDrops
  /\ \E dropped \in {[stream EXCEPT !.eof = TRUE], [stream EXCEPT !.broken = TRUE]} :
       \E o \in IdleOnDropped([World("idle_dropped", INBOX, FALSE, "") EXCEPT
                                    !.stream = [dropped EXCEPT !.idx = 0],
                                    !.preBroken = TRUE],
                               WatchState, main_conn) :
         /\ IdleReturn(o)
         /\ idle' = IF o.ok THEN [idle EXCEPT !.wait = now] ELSE IdleOff
         /\ blockn' = IF o.ok THEN blockn ELSE BlockingFrom
  /\ wire' = [wire EXCEPT !.q = <<>>, !.drops = @ + 1]
  /\ UNCHANGED processed

\* the server sends an untagged line to the idling connection
ServerLine ==
  /\ idle.on
  /\ wire.n < MaxLines
  /\ \E ignored \in BOOLEAN :
       wire' = [wire EXCEPT !.n = @ + 1,
                            !.q = Append(@, [id |-> wire.n + 1, ignored |-> ignored])]
  /\ UNCHANGED <<conf, now, stream, sync_policy, is_online, capabilities, msn_index, server,
                 srv_exists, last, srv_uidvalidity, idle, main_conn, blockn, processed>>
  /\ UNCHANGED <<watchVars, stepVars>>

\* time passes while a watcher idles or none runs: the timeout expires at
\* its deadline, and a line that has arrived is read at once
IdleTick ==
  /\ now + _5_MINS <= MaxTime
  /\ idle.on => wire.q = <<>>
  /\ idle.on => now + _5_MINS - idle.wait <= _10_MINS
  /\ now' = now + _5_MINS
  /\ UNCHANGED <<conf, stream, sync_policy, is_online, capabilities, msn_index, server,
                 srv_exists, last, srv_uidvalidity>>
  /\ UNCHANGED watchVars
  /\ UNCHANGED <<idleVars, stepVars>>

NextWatch ==
  \/ PollConnect
  \/ PollExamine
  \/ PollDrop
  \/ Deliver

SpecWatch == InitWatch /\ [][NextWatch]_vars

(***************************************************************************)
(* SpecWarm: the poll watcher while messages arrive in mailboxes that it   *)
(* has warmed.                                                             *)
(***************************************************************************)
NextWarm ==
  \/ PollConnect
  \/ PollExamine
  \/ PollDrop
  \/ DeliverWarm

SpecWarm == InitWatch /\ [][NextWarm]_vars

(***************************************************************************)
(* SpecIdle: the idle watcher of an account with an INBOX and other        *)
(* mailboxes, without offline cache, on a connection that the server      *)
(* keeps open.  A watcher that has ended with an error is started again.   *)
(***************************************************************************)
NextIdle ==
  \/ IdleStart
  \/ IdleTimeout
  \/ IdleLine
  \/ IdleTick
  \/ ServerLine

SpecIdle == InitWatch /\ [][NextIdle]_vars

(***************************************************************************)
(* SpecIdleLine: the idle watcher while lines arrive before any timeout    *)
(* expires.                                                                *)
(***************************************************************************)
NextIdleLine ==
  \/ IdleStart
  \/ IdleLine
  \/ ServerLine

SpecIdleLine == InitWatch /\ [][NextIdleLine]_vars

(***************************************************************************)
(* SpecIdleDrop: the idle watcher while its connection is dropped.         *)
(***************************************************************************)
NextIdleDrop ==
  \/ IdleStart
  \/ IdleDropped

SpecIdleDrop == InitWatch /\ [][NextIdleDrop]_vars

(***************************************************************************)
(* SpecStartTls: new_connection with use_starttls on a new socket, for     *)
(* every server script, on port 993 and on another port.  The steps of     *)
(* the client, of the server and of the clock are taken when they can be.  *)
(***************************************************************************)
InitStartTls ==
  /\ InitConn
  /\ conf.use_starttls
  /\ server.vol = "untagged"
  /\ folder_watch = FolderWatchOff
  /\ rl = ReadLinesOff
  /\ get = GetOff
  /\ tls \in { [StartTlsOff EXCEPT !.port993 = port993, !.script0 = script, !.script = script,
                                   !.ends = ends, !.pc = "write"] :
                 port993 \in BOOLEAN,
                 script \in SeqsUpTo({"greet", "ok", "no", "junk"}, MaxScript),
                 ends \in {"open", "close", "reset"} }

StartTlsFrame ==
  UNCHANGED <<conf, now, stream, sync_policy, is_online, capabilities, msn_index, server,
              srv_exists, last, srv_uidvalidity, watchVars, idleVars, folder_watch, rl, get>>

NextStartTls ==
  \/ StartTlsWrite /\ StartTlsFrame
  \/ StartTlsTest /\ StartTlsFrame
  \/ StartTlsRead /\ StartTlsFrame
  \/ StartTlsSecond /\ StartTlsFrame
  \/ StartTlsServerSend /\ StartTlsFrame
  \/ StartTlsServerEnd /\ StartTlsFrame

SpecStartTls ==
  /\ InitStartTls
  /\ [][NextStartTls]_vars
  /\ WF_vars(StartTlsWrite /\ StartTlsFrame)
  /\ WF_vars(StartTlsTest /\ StartTlsFrame)
  /\ WF_vars(StartTlsRead /\ StartTlsFrame)
  /\ WF_vars(StartTlsSecond /\ StartTlsFrame)
  /\ WF_vars(StartTlsServerSend /\ StartTlsFrame)
  /\ WF_vars(StartTlsServerEnd /\ StartTlsFrame)

(***************************************************************************)
(* SpecFolderWatch: one folder thread of ImapType::watch on a server with  *)
(* IDLE, for every line the server may send while the thread idles.        *)
(***************************************************************************)
InitFolderWatch ==
  /\ Init
  /\ ~conf.use_starttls /\ ~conf.oauth2
  /\ server.vol = "tagged"

FolderWatchFrame ==
  UNCHANGED <<conf, now, stream, sync_policy, is_online, capabilities, msn_index, server,
              srv_exists, last, srv_uidvalidity, watchVars, idleVars, tls, rl, get>>

NextFolderWatch ==
  \/ FolderWatchStart /\ FolderWatchFrame
  \/ FolderWatchLine /\ FolderWatchFrame

SpecFolderWatch == InitFolderWatch /\ [][NextFolderWatch]_vars

(***************************************************************************)
(* SpecReadLines: one call of read_lines with a tag prefix as termination  *)
(* string, for every sequence of lines of the server, every split of its   *)
(* bytes into reads, and a server that goes silent or closes afterwards.   *)
(***************************************************************************)
InitReadLines ==
  /\ InitConn
  /\ ~conf.use_starttls /\ ~conf.oauth2
  /\ server.vol = "tagged"
  /\ tls = StartTlsOff
  /\ folder_watch = FolderWatchOff
  /\ get = GetOff
  /\ rl \in { [ReadLinesOff EXCEPT !.pc = "reading", !.items = items, !.ends = ends,
                                   !.keep = keep, !.bytes = Flatten(items)] :
                items \in SeqsUpTo({"U", "T", "B", "L"}, MaxItems),
                ends \in {"open", "close"},
                keep \in BOOLEAN }

ReadLinesFrame ==
  UNCHANGED <<conf, now, stream, sync_policy, is_online, capabilities, msn_index, server,
              srv_exists, last, srv_uidvalidity, watchVars, idleVars, tls, folder_watch,
              get>>

NextReadLines ==
  \/ ReadLinesRead /\ ReadLinesFrame
  \/ ReadLinesEof /\ ReadLinesFrame
  \/ ReadLinesTimeout /\ ReadLinesFrame

SpecReadLines == InitReadLines /\ [][NextReadLines]_vars

(***************************************************************************)
(* SpecGet: one call of ImapType::get on a folder whose EXISTS count is    *)
(* around the multiples of the size of a fetch range.                      *)
(***************************************************************************)
InitGet ==
  /\ InitConn
  /\ tls = StartTlsOff
  /\ folder_watch = FolderWatchOff
  /\ rl = ReadLinesOff
  /\ get \in { [GetOff EXCEPT !.pc = "examine", !.n = k * FetchChunk + r] :
                 k \in 0..MaxChunks, r \in 0..MaxRest }
  /\ get.n >= 1

GetFrame ==
  UNCHANGED <<conf, now, stream, sync_policy, is_online, capabilities, msn_index, server,
              srv_exists, last, srv_uidvalidity, watchVars, idleVars, tls, folder_watch, rl>>

NextGet ==
  \/ GetExamine /\ GetFrame
  \/ GetFetch /\ GetFrame
  \/ GetFinish /\ GetFrame

SpecGet == InitGet /\ [][NextGet]_vars

(***************************************************************************)
(* SpecShared: the connection the backend shares with the idle watcher:    *)
(* select_mailbox by the backend's operations and the watcher's periodic   *)
(* examine_updates on it, while messages arrive and mailboxes are replaced *)
(* on the server.                                                          *)
(***************************************************************************)
NextShared ==
  \/ Reconnect
  \/ SelectMailbox
  \/ ExamineUpdates
  \/ Deliver
  \/ ChangeUidValidity

SpecShared == InitWatch /\ [][NextShared]_vars

(***************************************************************************)
(* Properties                                                              *)
(***************************************************************************)
NumCalls(e) == Cardinality({i \in DOMAIN last.calls : last.calls[i].e = e})
FaultAt(site) == \E i \in DOMAIN last.faults : last.faults[i][1] = site
SentOn(k) == SelectSeq(last.sent, LAMBDA c : c.idx = k)
CmdsSent == [i \in DOMAIN last.sent |-> last.sent[i].cmd]
SendOps == {"send_command", "send_literal", "send_raw"}

\* the send of the last call failed with a network-class error
SendFailedWithNetworkError ==
  /\ last.op \in SendOps
  /\ last.calls # <<>>
  /\ last.calls[1].e = "send_failed"
  /\ is_network(last.calls[1].err.kind)

ConnectOnHealthyStream ==
  /\ last.op = "connect"
  /\ last.preOk
  /\ ~last.preBroken
  /\ ~FaultAt("noop")

OneNoopOnly ==
  /\ CmdsSent = <<"NOOP">>
  /\ last.opens = <<>>
  /\ last.ret.ok
  /\ stream.ok

\* C2 as stated: connect() on a stream that is Ok and whose server answers
\* NOOP performs exactly one NOOP round-trip, opens no stream and returns Ok.
C2_Original == ConnectOnHealthyStream => OneNoopOnly

\* C2 amended: the same, provided uid_store.is_online is not an Ok that is
\* IMAP_PROTOCOL_TIMEOUT or more old when connect() is called.
C2_HealthyConnectIsOneNoop ==
  (ConnectOnHealthyStream /\ ~last.preStale) => OneNoopOnly

C2_Witness ==
  /\ ConnectOnHealthyStream
  /\ ~last.preStale
  /\ last.faults = <<>>
  /\ CmdsSent = <<"NOOP">>
  /\ last.ret.ok

StrictlyIncreasingFromOne(t) ==
  /\ t # <<>> => t[1] = 1
  /\ \A i, j \in DOMAIN t : i < j => t[i] < t[j]

\* C3: on every stream the tags of the commands written to the socket,
\* the STARTTLS included, are strictly increasing and start at 1.
C3_TagsStrictlyIncreasing ==
  /\ stream.ok => StrictlyIncreasingFromOne(stream.tags)
  /\ \A k \in DOMAIN last.opens :
       StrictlyIncreasingFromOne([i \in DOMAIN SentOn(k) |-> SentOn(k)[i].tag])

\* C4: when select_mailbox(h, _) returns Ok(Some(_)) the stream's
\* current_mailbox is Select(h); when examine_mailbox(h, _) returns
\* Ok(Some(_)) it is Examine(h).
C4_SelectionMatchesArgument ==
  /\ (last.op = "select_mailbox" /\ last.ret.ok /\ last.ret.val = "Some")
       => (stream.ok /\ stream.current_mailbox = Select(last.h))
  /\ (last.op = "examine_mailbox" /\ last.ret.ok /\ last.ret.val = "Some")
       => (stream.ok /\ stream.current_mailbox = Examine(last.h))

C4_Witness ==
  /\ last.op = "examine_mailbox"
  /\ last.ret.ok /\ last.ret.val = "Some"
  /\ last.preSel = Select(last.h)
  /\ stream.current_mailbox = Examine(last.h)

\* C5: a call select_mailbox(h, force = false) that directly follows a
\* successful select_mailbox(h, _) on the connection returns None and
\* writes no command.
C5_SecondSelectIsNoop ==
  [][ ( /\ last.op = "select_mailbox" /\ last.ret.ok /\ last.ret.val = "Some"
        /\ last' # last
        /\ last'.op = "select_mailbox" /\ last'.h = last.h /\ ~last'.force )
      => ( /\ last'.ret.ok /\ last'.ret.val = "None"
           /\ last'.sent = <<>> /\ last'.faults = <<>> /\ last'.calls = <<>>
           /\ stream' = stream ) ]_vars

C5_Witness ==
  /\ last.op = "select_mailbox" /\ ~last.force
  /\ last.ret.ok /\ last.ret.val = "None"
  /\ last.preSel = Select(last.h)
  /\ msn_index[last.h] # <<>>

\* the last call was read_response on a usable stream and the server's
\* reply was o
ReadGot(o) ==
  /\ last.op = "read_response"
  /\ last.preOk /\ ~last.preBroken
  /\ last.faults = << <<"resp", o>> >>

\* C6: after a connection has read a BYE, as the tagged completion or as
\* an untagged "* BYE" line, its stream is Err.
C6_ByeMarksOffline ==
  (ReadGot("BYE") \/ ReadGot("UBYE")) => ~stream.ok

\* C7: after a BYE has put the connection offline, the next send_command
\* performs a reconnect.
C7_SendAfterByeReconnects ==
  ( /\ last.op = "send_command"
    /\ ~last.preOk
    /\ last.preErr = Err("None", "Offline: received BYE") )
  => NumCalls("connect") >= 1

\* C8: when a read or a write exceeds the timeout, the call returns a
\* Timeout error and the stream is Err afterwards.
C8_TimeoutMarksErrored ==
  ( \/ ReadGot("TIMEOUT")
    \/ /\ last.op = "send_command" /\ last.preOk /\ ~last.preBroken
       /\ last.faults = << <<"cmd", "timeout">> >> )
  => ( /\ ~last.ret.ok
       /\ last.ret.err.kind = "Timeout"
       /\ ~stream.ok )

\* C9: a tagged NO or BAD is not fatal: the stream stays Ok (no teardown,
\* no reconnect), the error is returned and one ERROR Notice is emitted;
\* a NO read with NO_REQUIRED returns Ok and emits no Notice.
C9_NoBadNonFatal ==
  /\ (ReadGot("NO") \/ ReadGot("BAD")) =>
       /\ stream.ok
       /\ last.calls = <<>> /\ last.opens = <<>> /\ last.sent = <<>>
  /\ (ReadGot("NO") /\ last.required = "NO_REQUIRED") =>
       (last.ret.ok /\ last.notices = 0)
  /\ ((ReadGot("NO") /\ last.required # "NO_REQUIRED") \/ ReadGot("BAD")) =>
       /\ ~last.ret.ok
       /\ last.ret.err.msg \in {"NO", "BAD"}
       /\ last.notices = 1

C9_Witness ==
  /\ ReadGot("NO")
  /\ last.required # "NO_REQUIRED"
  /\ stream.ok
  /\ last.notices = 1
  /\ ~last.ret.ok

AuthCommands == {"LOGIN", "AUTHENTICATE"}

\* C10: on a stream whose pre-authentication CAPABILITY response lists
\* LOGINDISABLED or lacks IMAP4rev1 no LOGIN or AUTHENTICATE is written and
\* opening the stream fails; the rejection of LOGINDISABLED (of a server
\* that is IMAP4rev1) is an Authentication error.
C10_NoLoginWhenDisabled ==
  \A k \in DOMAIN last.opens :
    LET o == last.opens[k]
    IN (o.gotcaps /\ ("LOGINDISABLED" \in o.pre \/ "IMAP4rev1" \notin o.pre)) =>
         /\ \A i \in DOMAIN last.sent :
              last.sent[i].idx = k => last.sent[i].cmd \notin AuthCommands
         /\ ~o.ok
         /\ ("IMAP4rev1" \in o.pre) => o.err.kind = "Authentication"

C10_Witness ==
  \E k \in DOMAIN last.opens :
    /\ last.opens[k].gotcaps
    /\ "LOGINDISABLED" \in last.opens[k].pre
    /\ ~last.opens[k].ok
    /\ last.opens[k].err.kind = "Authentication"
    /\ ~stream.ok

\* C11: within a call that announces a literal (the LOGIN of a stream being
\* opened, the APPEND of save) the bytes of the literal are written only
\* directly after a "+" continuation line has been received.
C11_LiteralAfterContinuation ==
  last.op # "send_literal" =>
    \A i \in DOMAIN last.calls :
      last.calls[i].e = "literal" =>
        (i > 1 /\ last.calls[i - 1].e = "continuation")

\* C12: a connection opened to the server of scenario S1, which lists its
\* capabilities in the response code of the tagged LOGIN completion, has
\* sent exactly CAPABILITY and LOGIN, so that the next command is M3.
C12_NoExplicitCapability ==
  ( /\ server.vol = "tagged"
    /\ last.op = "connect" /\ ~last.preOk
    /\ last.faults = <<>>
    /\ last.ret.ok )
  => ( /\ CmdsSent = <<"CAPABILITY", "LOGIN">>
       /\ stream.cmd_id = 3 )

\* C13: whenever the authentication on a stream opened by the last call
\* has succeeded, uid_store.capabilities is the set advertised on that
\* stream.
C13_CapabilitiesReplaced ==
  \A k \in DOMAIN last.opens :
    last.opens[k].ok => capabilities = server.post

IoOps == SendOps \cup {"read_response"}
IoErrorKinds == {"Network", "Timeout"}

\* C14: after send_command, send_literal, send_raw or read_response has
\* returned an I/O error uid_store.is_online holds Err, after it has
\* returned Ok uid_store.is_online holds Ok.
C14_IsOnlineTracksIo ==
  last.op \in IoOps =>
    /\ last.ret.ok => is_online.ok
    /\ (~last.ret.ok /\ last.ret.err.kind \in IoErrorKinds) => ~is_online.ok

InverseMaps ==
  /\ \A a \in uid_index : <<a[2], <<a[1][2], a[1][1]>>>> \in hash_index
  /\ \A b \in hash_index : <<<<b[2][2], b[2][1]>>, b[1]>> \in uid_index
  /\ \A a, b \in uid_index : a[1] = b[1] => a = b
  /\ \A a, b \in hash_index : a[1] = b[1] => a = b

EntriesOf(h) == {a \in uid_index : a[1][1] = h}
HashesOf(h) == {b \in hash_index : b[2][2] = h}

\* C15: after any sequence of examine_updates runs (mailbox, uid) maps to
\* e in uid_index if and only if e maps to (uid, mailbox) in hash_index,
\* and both maps hold the same number of entries for every mailbox.
C15_IndexesMutuallyInverse ==
  /\ InverseMaps
  /\ \A h \in SelectableMailboxes :
       Cardinality(EntriesOf(h)) = Cardinality(HashesOf(h))

C15_Witness ==
  /\ last.op = "examine_updates"
  /\ last.ret.ok
  /\ \E i \in DOMAIN last.events : last.events[i].kind = "Create"
  /\ uid_index # {}
  /\ \E h \in SelectableMailboxes : Cardinality(HashesOf(h)) = srv_exists[h] /\ srv_exists[h] > 0

MailboxOps == {"select_mailbox", "examine_mailbox", "examine_updates"}

\* C16: when select_mailbox, examine_mailbox or examine_updates on mailbox
\* m has returned Ok, so that the EXISTS count n of m is known, the length
\* of msn_index[m] is 0 or n.
C16_MsnIndexEmptyOrExact ==
  ( /\ last.op \in MailboxOps
    /\ ~no_select(last.h)
    /\ last.ret.ok )
  => Len(msn_index[last.h]) \in {0, srv_exists[last.h]}

FetchCommands == {"FETCH", "UID FETCH"}

SawValidityChange ==
  /\ last.op = "examine_updates"
  /\ \E i \in DOMAIN last.events : last.events[i].kind = "Rescan"

\* C18: when examine_updates sees a UIDVALIDITY that differs from the
\* stored one, msn_index of the mailbox is empty and the mailbox is cold
\* afterwards.
C18_ValidityChangeResets ==
  SawValidityChange =>
    /\ msn_index[last.h] = <<>>
    /\ ~mailboxes[last.h].warm

IdleOps == {"idle", "idle_heartbeat", "idle_line", "idle_ignored_line"}

SentIdle == \E i \in DOMAIN last.sent : last.sent[i].cmd = "IDLE"

\* C19: whenever a step of the idle watcher has sent IDLE, the mailbox
\* examined on the watcher's own connection is the INBOX.
C19_IdleOnInbox ==
  ( last.op \in IdleOps /\ last.ret.ok /\ SentIdle )
  => stream.current_mailbox = Examine(INBOX)

\* C20: a heartbeat DONE that has a previous DONE is sent 10 minutes after
\* it, whatever lines have arrived in between.
C20_HeartbeatTenMinutesAfterDone ==
  ( last.op = "idle_heartbeat" /\ last.ret.ok /\ idle.gap >= 0 )
  => idle.gap = _10_MINS

\* C21: the periodic poll of the idle watcher leaves the idle target alone:
\* the shared main connection never has the INBOX examined while the idle
\* watcher runs.
C21_MainNeverExaminesIdleTarget ==
  idle.on => main_conn.stream.current_mailbox # Examine(INBOX)

\* C22: the untagged lines that the idle watcher receives are processed in
\* the order in which the server sent them.
C22_LinesProcessedInServerOrder ==
  \A i, j \in DOMAIN processed : i < j => processed[i] < processed[j]

\* the call was unselect() on an Ok stream with a mailbox selected, on a
\* connection that does not know UNSELECT, and nothing failed but what is
\* listed in faults
UnselectFallback(faults) ==
  /\ last.op = "unselect"
  /\ last.preOk /\ ~last.preBroken
  /\ last.preSel # SelNone
  /\ "UNSELECT" \notin capabilities
  /\ last.faults = faults

\* C23: unselect() without UNSELECT sends SELECT of a name that is the path
\* of no mailbox; a tagged NO to it gives Ok, no mailbox selected and no
\* Notice; with no mailbox selected unselect() sends nothing.
C23_UnselectFallback ==
  /\ last.op = "unselect" =>
       \A i \in DOMAIN last.sent : last.sent[i].cmd # "SELECT"
  /\ (UnselectFallback(<<>>) \/ UnselectFallback(<< <<"unselect", "NO">> >>)) =>
       /\ [i \in DOMAIN last.sent |-> last.sent[i].cmd] = <<"SELECT nonexistent">>
       /\ last.ret.ok
       /\ last.notices = 0
       /\ stream.ok /\ stream.current_mailbox = SelNone
  /\ (last.op = "unselect" /\ last.preOk /\ last.preSel = SelNone) =>
       /\ last.sent = <<>>
       /\ last.ret.ok
       /\ stream.current_mailbox = SelNone

C23_Witness ==
  /\ UnselectFallback(<< <<"unselect", "NO">> >>)
  /\ last.ret.ok
  /\ last.notices = 0
  /\ [i \in DOMAIN last.sent |-> last.sent[i].cmd] = <<"SELECT nonexistent">>
  /\ stream.current_mailbox = SelNone

\* C24: a call of examine_mailbox that examines the mailbox treats
\* msn_index as select_mailbox does: when msn_index[h] was empty it sends
\* UID SEARCH and fills msn_index[h] with the result, and when msn_index[h]
\* was populated it sends no UID SEARCH.
C24_ExamineBuildsMsnIndexWhenEmpty ==
  [][ ( /\ last' # last
        /\ last'.op = "examine_mailbox" /\ last'.ret.ok /\ last'.ret.val = "Some" )
      => LET h == last'.h
             searched == \E i \in DOMAIN last'.sent : last'.sent[i].cmd = "UID SEARCH"
         IN /\ msn_index[h] = <<>> => (searched /\ msn_index'[h] = UidsOf(srv_exists[h]))
            /\ msn_index[h] # <<>> => ~searched ]_vars

\* C25: when the only thing that goes wrong in connect() is the server's NO
\* to COMPRESS DEFLATE, connect() returns Ok and the stream is Ok and not
\* compressed.
C25_CompressRefusedIsNotFatal ==
  ( last.op = "connect" /\ last.faults = << <<"compress", "NO">> >> )
  => ( last.ret.ok /\ stream.ok /\ ~stream.deflate )

\* the server never sends a line "M1 OK"
NoValidOk == \A i \in DOMAIN tls.script0 : tls.script0[i] # "ok"

\* C26: when the server never sends a valid OK reply to STARTTLS, the
\* opening of the connection ends with an error, and on port 993 the
\* message of the error names port 993 and use_starttls.
C26_StartTlsEndsWithError ==
  /\ (tls.pc # "off" /\ NoValidOk) ~> (tls.pc = "done" /\ ~tls.ret.ok)
  /\ []( ( tls.pc = "done" /\ NoValidOk /\ tls.port993 )
         => tls.ret.msg = Port993Msg )

\* the folder thread has handled a line `n EXISTS' with n below the count
\* it knew
ExistsDecreased ==
  /\ folder_watch.on
  /\ folder_watch.step.line[1] = "Exists"
  /\ folder_watch.step.line[2] < folder_watch.step.prev

FolderWatchSent(cmd) ==
  \E i \in DOMAIN folder_watch.step.sent : folder_watch.step.sent[i] = cmd

\* C27: a line `n EXISTS' with n below the known count sends no FETCH and no
\* event about messages; when the DONE and IDLE around it succeed, no event
\* at all is sent and the known count becomes n.
C27_ExistsDecreaseIsSilent ==
  ExistsDecreased =>
    /\ ~FolderWatchSent("FETCH") /\ ~FolderWatchSent("UID FETCH")
    /\ \A i \in DOMAIN folder_watch.step.events :
         folder_watch.step.events[i][1] = "Failure"
    /\ ~folder_watch.exited =>
         /\ folder_watch.step.events = <<>>
         /\ folder_watch.prev_exists = folder_watch.step.line[2]

C27_Witness ==
  /\ ExistsDecreased
  /\ ~folder_watch.exited
  /\ ~folder_watch.step.beat
  /\ folder_watch.step.sent = <<"DONE", "IDLE">>
  /\ folder_watch.step.events = <<>>
  /\ folder_watch.prev_exists < folder_watch.step.prev

\* the number of bytes up to the end of the server's tagged line, 0 when it
\* sends none
RECURSIVE TagEndFrom(_, _)
TagEndFrom(items, before) ==
  IF items = <<>> THEN 0
  ELSE IF Head(items) = "T" THEN before + Len(BytesOf("T"))
  ELSE TagEndFrom(Tail(items), before + Len(BytesOf(Head(items))))

TagEnd == TagEndFrom(rl.items, 0)

NoBye == \A i \in DOMAIN rl.items : rl.items[i] # "B"

\* C28: as soon as the reads have delivered the whole tagged line,
\* read_response has returned, and its buffer ends with that line.
C28_ReturnsAtTaggedLine ==
  ( rl.pc # "off" /\ rl.keep /\ NoBye /\ TagEnd > 0 /\ rl.read >= TagEnd )
  => ( rl.pc = "ok" /\ rl.ret = Slice(rl.bytes, 0, TagEnd) )

\* C29: read_response does not return Ok before the server's tagged line
\* has arrived, whatever a literal contains.
C29_LiteralIsNotFramed ==
  ( rl.pc = "ok" /\ ~rl.eof ) => ( TagEnd > 0 /\ rl.read >= TagEnd )

\* C30: when the server closes the connection before the terminating line
\* has been received, the call fails with Disconnected.
C30_EofIsDisconnected ==
  ( rl.pc \in {"ok", "err"} /\ rl.ends = "close" /\ rl.read = Len(rl.bytes)
    /\ (TagEnd = 0 \/ rl.eof) )
  => ( rl.pc = "err" /\ rl.err = "Disconnected" )

\* the calls of the last step among DONE, read_response, process_untagged
\* and IDLE, in their order
IdleLoopCalls ==
  LET names == [i \in DOMAIN last.calls |-> last.calls[i].e]
  IN SelectSeq(names, LAMBDA e : e \in {"DONE", "read_response", "process_untagged", "IDLE"})

\* C31: on a line that is not ignored the watcher sends DONE, reads the
\* tagged completion of IDLE, processes the untagged lines and sends IDLE, in
\* this order: a later call is made only when the earlier ones returned,
\* the step ends with Ok only after all four; the lines count as processed
\* only then, and a line that is ignored causes none of the four.
C31_DoneReadProcessIdle ==
  /\ last.op = "idle_line"
       => /\ \E n \in 0..4 :
               IdleLoopCalls = SubSeq(<<"DONE", "read_response", "process_untagged", "IDLE">>, 1, n)
          /\ (last.ret.ok /\ IdleLoopCalls # <<>>) => Len(IdleLoopCalls) = 4
          /\ SentIdle => /\ Len(IdleLoopCalls) >= 3
                         /\ last.sent[Len(last.sent)].cmd = "IDLE"
  /\ last.op = "idle_ignored_line" => (IdleLoopCalls = <<>> /\ ~SentIdle)

C31_Witness ==
  /\ last.op = "idle_line"
  /\ last.ret.ok
  /\ Len(IdleLoopCalls) = 4
  /\ SentIdle
  /\ processed # <<>>

\* C32: while the idle watcher runs, the last poll of the mailboxes (at
\* start-up or through main_conn) is never more than five minutes plus one
\* heartbeat period ago.
C32_PeersPolledEveryFiveMinutes ==
  idle.on => now - idle.watch <= _5_MINS + _10_MINS

\* C33: whenever the stream of the connection is Ok, current_mailbox is
\* what the server has selected in that session.
C33_SelectionAgreesWithServer ==
  stream.ok => stream.current_mailbox = stream.selected

C35_NoLineHeldBack ==
  (idle.on /\ wire.q = <<>>) => Len(blockn.result) <= blockn.prev_res_length

\* C36: when the idle loop goes on after its connection was dropped, it
\* has examined the INBOX and sent IDLE on the connection it now waits on.
C36_WaitsOnIdlingConnection ==
  (last.op = "idle_dropped" /\ last.ret.ok /\ idle.on)
  => /\ SentIdle
     /\ last.sent[Len(last.sent)].cmd = "IDLE"
     /\ stream.selected = Examine(INBOX)

\* C37: a run of examine_updates that follows a run for the same mailbox
\* which reported Rescan, and sees the UIDVALIDITY that run saw, reports no
\* Rescan.
C37_OneRescanPerChange ==
  [][ ( /\ SawValidityChange
        /\ last' # last
        /\ last'.op = "examine_updates"
        /\ last'.h = last.h
        /\ srv_uidvalidity' = srv_uidvalidity )
      => ~SawValidityChange' ]_vars

\* C38: the poll watcher is still running after a run of examine_updates
\* that has failed with the NO reply of the server to a command for the
\* mailbox.
C38_PollSurvivesMailboxFailure ==
  ( /\ last.op = "examine_updates"
    /\ ~last.ret.ok
    /\ last.ret.err = Err("None", "NO") )
  => poll.on

\* the messages of mailbox h on the server that no Create event has
\* reported
Unreported(h) == {uid \in 1..srv_exists[h] : ~contains_key(uid_index, <<h, uid>>)}

\* C39: a run of examine_updates on a warm mailbox that meets no failure
\* while a message that arrived in the warm mailbox is unreported reports a
\* message with a Create event (so that finitely many runs report every
\* message).
C39_WarmRunReportsArrival ==
  [][ ( /\ last' # last
        /\ last'.op = "examine_updates"
        /\ last'.ret.ok
        /\ last'.faults = <<>>
        /\ last'.h \in SelectableMailboxes
        /\ mailboxes[last'.h].warm
        /\ Unreported(last'.h) # {} )
      => \E i \in DOMAIN last'.events : last'.events[i].kind = "Create" ]_vars

\* the number of fetch ranges of get() that hold position p
TimesFetched(p) ==
  Cardinality({i \in DOMAIN get.fetched : get.fetched[i][1] <= p /\ p <= get.fetched[i][2]})

\* C40: when get() has sent Finished for a folder with EXISTS = n >= 1,
\* every position 1..n is in exactly one of the ranges it has fetched.
C40_RangesCoverOnce ==
  (get.pc = "done" /\ get.n >= 1) => \A p \in 1..get.n : TimesFetched(p) = 1

====
